---- MODULE Spec2Model ----
(***************************************************************************)
(* Model of the weekly schedule Timeline of labor-planner-frontend:        *)
(* date utilities, grain derivation, machine set building, time            *)
(* normalisation, MachineRow layout, the Timeline's zoom and selection     *)
(* state, and the validation of the log-in form.                           *)
(*                                                                         *)
(* Conventions                                                             *)
(*  - A value that may be null / undefined is the empty sequence NULL or   *)
(*    the one-element sequence Some(v); OrElse(o, d) is JavaScript's       *)
(*    o ?? d.                                                              *)
(*  - A "YYYY-MM-DD" string is the record [y, m, d] of its three fields.   *)
(*  - A Date object is its number of whole days since 1970-01-01 (UTC)     *)
(*    plus, where needed, minutes within the day.                          *)
(*  - pixelsPerMinute and every pixel quantity are kept in hundredths      *)
(*    (0.6 px/min is 60), so all layout arithmetic is exact.               *)
(*  - A machine id is a sequence of one-character strings so that          *)
(*    toLowerCase() and trim() are computed, not assumed.                  *)
(***************************************************************************)
EXTENDS Integers, Sequences, FiniteSets, TLC

VARIABLES
    env,              \* host environment: local time zone offset (minutes east of UTC)
    schedule,         \* the ServerSchedule handed to the code under test
    pc,               \* position of the driver of a pure-function specification
    result,           \* value(s) returned by the pure functions applied so far
    pixelsPerMinute,  \* Timeline zoom state, hundredths of a pixel per minute
    selected,         \* Timeline popover state
    view,             \* what the last Timeline render produced
    login,            \* LogInCard: its fields, the open alert, the call of onSubmit
    fiber,            \* React's record of the mounted Timeline: hooks of its last render, render error
    page,             \* state of the mounted page component and its requests in flight
    browser           \* localStorage's accessToken and window.location.href

vars == <<env, schedule, pc, result, pixelsPerMinute, selected, view, login, fiber, page, browser>>

NULL == << >>
Some(v) == <<v>>
Val(o) == o[1]
OrElse(o, d) == IF o = NULL THEN d ELSE o[1]

Max(a, b) == IF a >= b THEN a ELSE b
Min(a, b) == IF a <= b THEN a ELSE b

(***************************************************************************)
(* Calendar arithmetic behind JavaScript's Date (proleptic Gregorian, UTC) *)
(***************************************************************************)
IsLeapYear(y) == (y % 4 = 0 /\ y % 100 # 0) \/ y % 400 = 0

DaysInMonth(y, m) ==
    CASE m \in {4, 6, 9, 11} -> 30
      [] m = 2 -> IF IsLeapYear(y) THEN 29 ELSE 28
      [] OTHER -> 31

\* Date.UTC(y, m-1, d) / 86400000: the day number of a civil date, computed era by era
\* (400 years), year of era, day of year counted from 1 March
DaysFromDoe(era, doe) == era * 146097 + doe - 719468

DaysFromYoe(era, yoe, doy) == DaysFromDoe(era, yoe * 365 + yoe \div 4 - yoe \div 100 + doy)

DaysFromEra(yy, era, doy) == DaysFromYoe(era, yy - era * 400, doy)

DaysFromMp(yy, mp, d) == DaysFromEra(yy, yy \div 400, (153 * mp + 2) \div 5 + d - 1)

DaysFromCivil(y, m, d) == DaysFromMp(IF m <= 2 THEN y - 1 ELSE y, (m + 9) % 12, d)

\* getUTCFullYear / getUTCMonth+1 / getUTCDate of a day number, as toISOString().slice(0, 10)
\* prints them: the inverse computation, era, day of era, year of era, day of year, month
CivilFromMonth(era, yoe, m, d) ==
    [y |-> yoe + era * 400 + (IF m <= 2 THEN 1 ELSE 0), m |-> m, d |-> d]

CivilFromMp(era, yoe, doy, mp) ==
    CivilFromMonth(era, yoe, IF mp < 10 THEN mp + 3 ELSE mp - 9, doy - (153 * mp + 2) \div 5 + 1)

CivilFromDoy(era, yoe, doy) == CivilFromMp(era, yoe, doy, (5 * doy + 2) \div 153)

CivilFromYoe(era, doe, yoe) == CivilFromDoy(era, yoe, doe - (365 * yoe + yoe \div 4 - yoe \div 100))

CivilFromDoe(era, doe) ==
    CivilFromYoe(era, doe, (doe - doe \div 1460 + doe \div 36524 - doe \div 146096) \div 365)

CivilFromEra(z, era) == CivilFromDoe(era, z - era * 146097)

CivilFromDays(z0) == CivilFromEra(z0 + 719468, (z0 + 719468) \div 146097)

\* getUTCDay(): 0 = Sunday ... 6 = Saturday (1970-01-01 was a Thursday)
UTCDay(days) == (days + 4) % 7

IsoDate(y, m, d) == [y |-> y, m |-> m, d |-> d]

IsCalendarDate(iso) ==
    /\ iso.m \in 1..12
    /\ iso.d \in 1..DaysInMonth(iso.y, iso.m)

(***************************************************************************)
(* Input strings.  A string is modelled by its shape:                      *)
(*   kind "date"  : "YYYY-MM-DD"                                           *)
(*   kind "utc"   : "YYYY-MM-DDThh:00:00Z"                                 *)
(*   kind "local" : "YYYY-MM-DDThh:00:00"  (no zone: parsed as local time) *)
(*   kind "text"  : a non-empty string that is no date at all              *)
(*   kind "empty" : ""                                                     *)
(***************************************************************************)
DateOnlyStr(iso)     == [kind |-> "date",  y |-> iso.y, m |-> iso.m, d |-> iso.d, hh |-> 0]
UtcStr(iso, hh)      == [kind |-> "utc",   y |-> iso.y, m |-> iso.m, d |-> iso.d, hh |-> hh]
LocalStr(iso, hh)    == [kind |-> "local", y |-> iso.y, m |-> iso.m, d |-> iso.d, hh |-> hh]
TextStr              == [kind |-> "text",  y |-> 0, m |-> 0, d |-> 0, hh |-> 0]
EmptyStr             == [kind |-> "empty", y |-> 0, m |-> 0, d |-> 0, hh |-> 0]

\* new Date(str).getTime() in minutes since the epoch, NULL for an Invalid Date
ParseDateTime(str, tz) ==
    IF str.kind \notin {"utc", "local"} \/ ~IsCalendarDate(str) \/ str.hh \notin 0..23
    THEN NULL
    ELSE LET utcMinutes == DaysFromCivil(str.y, str.m, str.d) * 1440 + str.hh * 60
         IN  IF str.kind = "utc" THEN Some(utcMinutes) ELSE Some(utcMinutes - tz)

normalizeDateOnlyIso(input, tz) ==
    IF input = NULL \/ Val(input).kind = "empty" THEN NULL
    ELSE IF Val(input).kind = "date"
         THEN Some(IsoDate(Val(input).y, Val(input).m, Val(input).d))
    ELSE LET t == ParseDateTime(Val(input), tz)
         IN  IF t = NULL THEN NULL ELSE Some(CivilFromDays(Val(t) \div 1440))

\* new Date(`${dateIso}T00:00:00Z`) as a day number, NULL for an Invalid Date
ParseUtcMidnight(dateIso) ==
    IF ~IsCalendarDate(dateIso) THEN NULL
    ELSE Some(DaysFromCivil(dateIso.y, dateIso.m, dateIso.d))

\* mutant: the Sunday case is forgotten (day - 1 instead of (day + 6) % 7)
startOfWeekIso_SundayBug(dateIso) ==
    IF dateIso = NULL THEN NULL
    ELSE LET d == ParseUtcMidnight(Val(dateIso))
         IN  IF d = NULL THEN NULL
             ELSE Some(CivilFromDays(Val(d) - (UTCDay(Val(d)) - 1)))

startOfWeekIso(dateIso) ==
    IF dateIso = NULL THEN NULL
    ELSE LET d == ParseUtcMidnight(Val(dateIso))
         IN  IF d = NULL THEN NULL
             ELSE LET day == UTCDay(Val(d))
                      daysSinceMonday == (day + 6) % 7
                  IN  Some(CivilFromDays(Val(d) - daysSinceMonday))

\* Timeline: weekStartIso
WeekStartIso(sched, tz) ==
    LET norm == normalizeDateOnlyIso(sched.weekStartDate, tz)
    IN  IF norm = NULL THEN NULL ELSE startOfWeekIso(norm)

\* Timeline: days (index i of the code is position i + 1 here); only the iso field is kept
TimelineDays(weekStartIso) ==
    IF weekStartIso = NULL THEN << >>
    ELSE LET d == Val(ParseUtcMidnight(Val(weekStartIso)))
         IN  [i \in 1..7 |-> CivilFromDays(d + (i - 1) + 7)]

(***************************************************************************)
(* Strings that the code transforms: sequences of one-character strings    *)
(***************************************************************************)
LowerChars == <<"a", "d", "e", "g", "i", "m", "n", "s", "u">>
UpperChars == <<"A", "D", "E", "G", "I", "M", "N", "S", "U">>

\* String.prototype.toLowerCase, one character
ToLowerChar(c) ==
    IF \E i \in 1..Len(UpperChars) : UpperChars[i] = c
    THEN LowerChars[CHOOSE i \in 1..Len(UpperChars) : UpperChars[i] = c]
    ELSE c

ToLowerCase(s) == [i \in 1..Len(s) |-> ToLowerChar(s[i])]

\* String.prototype.trim
RECURSIVE TrimStart(_)
TrimStart(s) == IF s # << >> /\ Head(s) = " " THEN TrimStart(Tail(s)) ELSE s

RECURSIVE TrimEnd(_)
TrimEnd(s) == IF s # << >> /\ s[Len(s)] = " " THEN TrimEnd(SubSeq(s, 1, Len(s) - 1)) ELSE s

Trim(s) == TrimEnd(TrimStart(s))

UnassignedId   == <<"u", "n", "a", "s", "s", "i", "g", "n", "e", "d">>
UnassignedName == <<"U", "n", "a", "s", "s", "i", "g", "n", "e", "d">>

\* mutant: the id is lower-cased but not trimmed
normalizeId_NoTrim(id) ==
    IF id = NULL THEN UnassignedId ELSE ToLowerCase(Val(id))

normalizeId(id) ==
    IF id = NULL THEN UnassignedId ELSE Trim(ToLowerCase(Val(id)))

(***************************************************************************)
(* Schedule payload                                                        *)
(***************************************************************************)
Machine(uuid, name) == [machineUuid |-> uuid, name |-> name]

Grain(minute, grainIndex, date) ==
    [startingMinuteOfDay |-> minute, grainIndex |-> grainIndex, date |-> date]

\* a ScheduledJob; job.assignedTimeGrain / sj.assignedTimeGrain is the alternative payload shape
ScheduledJob(uuid, machine, grain, altGrain, minutes, grains) ==
    [scheduledJobUuid  |-> uuid,
     assignedMachine   |-> machine,
     startingTimeGrain |-> grain,
     assignedTimeGrain |-> altGrain,
     job               |-> [durationMinutes |-> minutes],
     durationInGrains  |-> grains]

ServerSchedule(weekStartDate, machineList, scheduledJobList) ==
    [weekStartDate |-> weekStartDate, machineList |-> machineList, scheduledJobList |-> scheduledJobList]

\* schedule.scheduledJobList || []
JobList(sched) == OrElse(sched.scheduledJobList, << >>)

(***************************************************************************)
(* Grain Deriver                                                           *)
(***************************************************************************)
\* Math.round(n / d) for d > 0: floor(n/d + 1/2), halves go up
MathRoundDiv(n, d) == (2 * n + d) \div (2 * d)

BUSINESS_START_MINUTES  == 420
BUSINESS_END_MINUTES    == 1080
VISIBLE_MINUTES_PER_DAY == BUSINESS_END_MINUTES - BUSINESS_START_MINUTES

DefaultGrainLength == 5

RECURSIVE DeriveFrom(_)
DeriveFrom(sj) ==
    IF sj = << >> THEN DefaultGrainLength
    ELSE LET minutes == Head(sj).job.durationMinutes
             grains  == Head(sj).durationInGrains
         IN  IF minutes # NULL /\ grains # NULL /\ Val(grains) > 0
             THEN Max(1, MathRoundDiv(Val(minutes), Val(grains)))
             ELSE DeriveFrom(Tail(sj))

\* mutant: the scan does not stop at the first match, the last match wins
RECURSIVE DeriveFromLast(_)
DeriveFromLast(sj) ==
    IF sj = << >> THEN DefaultGrainLength
    ELSE LET minutes == sj[Len(sj)].job.durationMinutes
             grains  == sj[Len(sj)].durationInGrains
         IN  IF minutes # NULL /\ grains # NULL /\ Val(grains) > 0
             THEN Max(1, MathRoundDiv(Val(minutes), Val(grains)))
             ELSE DeriveFromLast(SubSeq(sj, 1, Len(sj) - 1))

deriveGrainLength_LastWins(sched) == DeriveFromLast(JobList(sched))

deriveGrainLength(sched) == DeriveFrom(JobList(sched))

(***************************************************************************)
(* Machine Set Builder                                                     *)
(***************************************************************************)
\* mutant: the placeholder carries a capitalised id
UnassignedMachine_CapitalId == Machine(UnassignedName, Some(UnassignedName))

\* { machineUuid: "unassigned", name: "Unassigned" }
UnassignedMachine == Machine(UnassignedId, Some(UnassignedName))

\* A JavaScript Map in insertion order: a sequence of [key, value] entries
MapHas(map, key) == \E i \in 1..Len(map) : map[i].key = key

\* mutant: map.set without the has() test, a later machine replaces the earlier one
MapSet_Overwrite(map, key, value) ==
    IF MapHas(map, key)
    THEN [i \in 1..Len(map) |-> IF map[i].key = key THEN [key |-> key, value |-> value] ELSE map[i]]
    ELSE Append(map, [key |-> key, value |-> value])

\* if (!map.has(key)) map.set(key, value)
MapSetIfAbsent(map, key, value) ==
    IF MapHas(map, key) THEN map ELSE Append(map, [key |-> key, value |-> value])

\* schedule.machineList.forEach(...)
RECURSIVE SeedFromMachineList(_, _)
SeedFromMachineList(map, ms) ==
    IF ms = << >> THEN map
    ELSE SeedFromMachineList(
            MapSetIfAbsent(map, normalizeId(Some(Head(ms).machineUuid)), Head(ms)), Tail(ms))

\* (schedule.scheduledJobList || []).forEach(...)
RECURSIVE AddAssignedMachines(_, _)
AddAssignedMachines(map, sjs) ==
    IF sjs = << >> THEN map
    ELSE LET raw == OrElse(Head(sjs).assignedMachine, UnassignedMachine)
         IN  AddAssignedMachines(
                MapSetIfAbsent(map, normalizeId(Some(raw.machineUuid)), raw), Tail(sjs))

\* .some((sj) => !sj.assignedMachine?.machineUuid): the empty string is falsy too
NeedsUnassigned(sched) ==
    \E i \in 1..Len(JobList(sched)) :
        LET am == JobList(sched)[i].assignedMachine
        IN  am = NULL \/ Val(am).machineUuid = << >>

\* String.prototype.localeCompare on the characters used here: blank < digits < letters,
\* letters first compared without case, a lower-case letter before its capital on a tie
Collation == <<" ", "1", "2", "a", "d", "e", "g", "i", "m", "n", "s", "u">>

PrimaryRank(c) == CHOOSE i \in 1..Len(Collation) : Collation[i] = ToLowerChar(c)

CaseRank(c) == IF ToLowerChar(c) = c THEN 0 ELSE 1

RECURSIVE LexCompare(_, _)
LexCompare(a, b) ==
    IF a = << >> /\ b = << >> THEN 0
    ELSE IF a = << >> THEN -1
    ELSE IF b = << >> THEN 1
    ELSE IF Head(a) < Head(b) THEN -1
    ELSE IF Head(a) > Head(b) THEN 1
    ELSE LexCompare(Tail(a), Tail(b))

LocaleCompare(a, b) ==
    LET primary == LexCompare([i \in 1..Len(a) |-> PrimaryRank(a[i])], [i \in 1..Len(b) |-> PrimaryRank(b[i])])
    IN  IF primary # 0 THEN primary
        ELSE LexCompare([i \in 1..Len(a) |-> CaseRank(a[i])], [i \in 1..Len(b) |-> CaseRank(b[i])])

\* (a, b) => (a?.name ?? "").localeCompare(b?.name ?? "")
CompareByName(a, b) == LocaleCompare(OrElse(a.name, << >>), OrElse(b.name, << >>))

\* mutant: an unstable sort, an element goes before the elements it compares equal to
RECURSIVE InsertSorted_BeforeEquals(_, _)
InsertSorted_BeforeEquals(sorted, x) ==
    IF sorted = << >> THEN <<x>>
    ELSE IF CompareByName(Head(sorted), x) >= 0 THEN <<x>> \o sorted
    ELSE <<Head(sorted)>> \o InsertSorted_BeforeEquals(Tail(sorted), x)

\* Array.prototype.sort is stable: an element goes after every element that does not compare greater
RECURSIVE InsertSorted(_, _)
InsertSorted(sorted, x) ==
    IF sorted = << >> THEN <<x>>
    ELSE IF CompareByName(Head(sorted), x) > 0 THEN <<x>> \o sorted
    ELSE <<Head(sorted)>> \o InsertSorted(Tail(sorted), x)

RECURSIVE SortByName(_)
SortByName(arr) ==
    IF arr = << >> THEN << >>
    ELSE InsertSorted(SortByName(SubSeq(arr, 1, Len(arr) - 1)), arr[Len(arr)])

buildMachinesFromSchedule(sched) ==
    LET seeded   == IF sched.machineList = NULL THEN << >>
                    ELSE SeedFromMachineList(<< >>, Val(sched.machineList))
        assigned == AddAssignedMachines(seeded, JobList(sched))
        map      == IF NeedsUnassigned(sched) /\ ~MapHas(assigned, UnassignedId)
                    THEN Append(assigned, [key |-> UnassignedId, value |-> UnassignedMachine])
                    ELSE assigned
    IN  SortByName([i \in 1..Len(map) |-> map[i].value])

\* normalizeId(sj.assignedMachine?.machineUuid)
AssignedKey(sj) ==
    IF sj.assignedMachine = NULL THEN normalizeId(NULL)
    ELSE normalizeId(Some(Val(sj.assignedMachine).machineUuid))

\* mutant: the job's machine id is compared as sent, without normalizeId
jobsForMachine_RawCompare(all, machine) ==
    LET key == normalizeId(Some(machine.machineUuid))
        Keep(sj) == sj.assignedMachine # NULL /\ Val(sj.assignedMachine).machineUuid = key
    IN  SelectSeq(all, Keep)

jobsForMachine(all, machine) ==
    LET key == normalizeId(Some(machine.machineUuid))
        Keep(sj) == AssignedKey(sj) = key
    IN  SelectSeq(all, Keep)

(***************************************************************************)
(* Zoom constants (exported by schedulingUtils in the Timeline's snapshot) *)
(***************************************************************************)
DEFAULT_PIXELS_PER_MINUTE == 60
MIN_PIXELS_PER_MINUTE     == 20
MAX_PIXELS_PER_MINUTE     == 120

(***************************************************************************)
(* Drivers of the pure functions: the inputs are drawn in Init, the        *)
(* actions apply the functions in the order the Timeline applies them.     *)
(***************************************************************************)
NoResult ==
    [norm |-> NULL, week |-> NULL, again |-> NULL, days |-> << >>,
     grainLength |-> 0, machines |-> << >>, rows |-> << >>]

\* the Timeline is not mounted in the pure-function specifications
TimelineIdle ==
    /\ pixelsPerMinute = DEFAULT_PIXELS_PER_MINUTE
    /\ selected = NULL
    /\ view = NULL
    /\ login = NULL
    /\ fiber = NULL
    /\ page = NULL
    /\ browser = NULL

SeqsUpTo(S, n) == UNION {[1..k -> S] : k \in 0..n}

\* ---- dates ----
WeekSpan == 2

CalendarDays ==
    {DaysFromCivil(2025, 12, 22) + k : k \in 0..(7 * WeekSpan - 1)}
        \cup {DaysFromCivil(2024, 2, 26) + k : k \in 0..6}

ClockHours == {0, 23}

TimeZones == {-300, 0, 60}

\* date-shaped, but month 13 and day 45 are no calendar date for any JavaScript engine
NoCalendarDate == IsoDate(2025, 13, 45)

DateStrings ==
    {NULL, Some(TextStr), Some(EmptyStr)}
        \cup {Some(DateOnlyStr(NoCalendarDate)), Some(UtcStr(NoCalendarDate, 0)), Some(LocalStr(NoCalendarDate, 0))}
        \cup {Some(DateOnlyStr(CivilFromDays(n))) : n \in CalendarDays}
        \cup {Some(UtcStr(CivilFromDays(n), h)) : n \in CalendarDays, h \in ClockHours}
        \cup {Some(LocalStr(CivilFromDays(n), h)) : n \in CalendarDays, h \in ClockHours}

InitDates ==
    /\ env \in [tz : TimeZones]
    /\ schedule \in {ServerSchedule(w, NULL, Some(<< >>)) : w \in DateStrings}
    /\ pc = "start"
    /\ result = NoResult
    /\ TimelineIdle

ApplyNormalizeDateOnlyIso ==
    /\ pc = "start"
    /\ result' = [result EXCEPT !.norm = normalizeDateOnlyIso(schedule.weekStartDate, env.tz)]
    /\ pc' = "normalized"
    /\ UNCHANGED <<env, schedule, pixelsPerMinute, selected, view, login, fiber, page, browser>>

ApplyStartOfWeekIso ==
    /\ pc = "normalized"
    /\ result' = [result EXCEPT !.week = startOfWeekIso(result.norm)]
    /\ pc' = "snapped"
    /\ UNCHANGED <<env, schedule, pixelsPerMinute, selected, view, login, fiber, page, browser>>

ComputeDays ==
    /\ pc = "snapped"
    /\ result' = [result EXCEPT !.days = TimelineDays(result.week)]
    /\ pc' = "days"
    /\ UNCHANGED <<env, schedule, pixelsPerMinute, selected, view, login, fiber, page, browser>>

ApplyStartOfWeekIsoAgain ==
    /\ pc = "days"
    /\ result' = [result EXCEPT !.again = startOfWeekIso(result.week)]
    /\ pc' = "done"
    /\ UNCHANGED <<env, schedule, pixelsPerMinute, selected, view, login, fiber, page, browser>>

NextDates ==
    \/ ApplyNormalizeDateOnlyIso
    \/ ApplyStartOfWeekIso
    \/ ComputeDays
    \/ ApplyStartOfWeekIsoAgain

SpecDates == InitDates /\ [][NextDates]_vars

\* ---- grain derivation ----
MaxJobs == 2
MaxDurationMinutes == 5
MaxDurationGrains == 3

OptionalNat(n) == {NULL} \cup {Some(k) : k \in 0..n}

GrainJobs ==
    {ScheduledJob(0, NULL, NULL, NULL, minutes, grains) :
        minutes \in OptionalNat(MaxDurationMinutes), grains \in OptionalNat(MaxDurationGrains)}

\* scheduledJobUuid is the position in the list
Numbered(sjs) == [i \in 1..Len(sjs) |-> [sjs[i] EXCEPT !.scheduledJobUuid = i]]

InitGrain ==
    /\ env = [tz |-> 0]
    /\ schedule \in {ServerSchedule(NULL, NULL, NULL)}
            \cup {ServerSchedule(NULL, NULL, Some(Numbered(sjs))) : sjs \in SeqsUpTo(GrainJobs, MaxJobs)}
    /\ pc = "start"
    /\ result = NoResult
    /\ TimelineIdle

ApplyDeriveGrainLength ==
    /\ pc = "start"
    /\ result' = [result EXCEPT !.grainLength = deriveGrainLength(schedule)]
    /\ pc' = "done"
    /\ UNCHANGED <<env, schedule, pixelsPerMinute, selected, view, login, fiber, page, browser>>

NextGrain == ApplyDeriveGrainLength

SpecGrain == InitGrain /\ [][NextGrain]_vars

\* ---- machine rows ----
MaxMachines == 2

MachinePool ==
    {Machine(<<"M", "1">>, Some(<<"M", "u">>)),
     Machine(<<" ", "m", "1", " ">>, Some(<<"A", "d">>)),
     Machine(<<"M", "2">>, Some(<<"m", "u">>)),
     Machine(UnassignedName, Some(<<"A", "d">>)),
     Machine(<< >>, NULL)}

MachineJobs ==
    {ScheduledJob(0, am, NULL, NULL, NULL, NULL) : am \in {NULL} \cup {Some(m) : m \in MachinePool}}

InitMachines ==
    /\ env = [tz |-> 0]
    /\ schedule \in
         {ServerSchedule(NULL, ml, Some(Numbered(sjs))) :
             ml \in {NULL} \cup {Some(ms) : ms \in SeqsUpTo(MachinePool, MaxMachines)},
             sjs \in SeqsUpTo(MachineJobs, MaxJobs)}
    /\ pc = "start"
    /\ result = NoResult
    /\ TimelineIdle

\* Timeline: machines, then machines.map((m) => jobsForMachine(jobs, m))
ApplyBuildMachines ==
    /\ pc = "start"
    /\ LET machines == buildMachinesFromSchedule(schedule)
       IN  result' = [result EXCEPT
                        !.machines = machines,
                        !.rows = [i \in 1..Len(machines) |-> jobsForMachine(JobList(schedule), machines[i])]]
    /\ pc' = "done"
    /\ UNCHANGED <<env, schedule, pixelsPerMinute, selected, view, login, fiber, page, browser>>

\* the memo function runs again on the same schedule (a remount, or StrictMode's second call)
ApplyBuildMachinesAgain ==
    /\ pc = "done"
    /\ LET machines == buildMachinesFromSchedule(schedule)
       IN  result' = [result EXCEPT
                        !.machines = machines,
                        !.rows = [i \in 1..Len(machines) |-> jobsForMachine(JobList(schedule), machines[i])]]
    /\ pc' = "again"
    /\ UNCHANGED <<env, schedule, pixelsPerMinute, selected, view, login, fiber, page, browser>>

NextMachines == ApplyBuildMachines \/ ApplyBuildMachinesAgain

SpecMachines == InitMachines /\ [][NextMachines]_vars

(***************************************************************************)
(* Time Normalizer (Timeline: normalizedScheduledJobs)                     *)
(***************************************************************************)
\* mutant: every resolved minute is taken as a clock minute and shifted
RelativeMinute_AlwaysShifted(m) == Max(-1440, Min(1440, m - BUSINESS_START_MINUTES))

\* let relative = ...; the two branches; relative = Math.max(-1440, Math.min(1440, relative))
RelativeMinute(m) ==
    Max(-1440, Min(1440,
        IF m >= BUSINESS_START_MINUTES /\ m <= BUSINESS_START_MINUTES + VISIBLE_MINUTES_PER_DAY
        THEN m - BUSINESS_START_MINUTES
        ELSE IF m > VISIBLE_MINUTES_PER_DAY /\ m < BUSINESS_START_MINUTES
        THEN Max(0, Min(VISIBLE_MINUTES_PER_DAY, m - BUSINESS_START_MINUTES))
        ELSE m))

normalizeGrain(raw, grainLengthMinutes, tz) ==
    IF raw = NULL THEN NULL
    ELSE LET r       == Val(raw)
             dateIso == normalizeDateOnlyIso(r.date, tz)
             \* grainIndex and grainLengthMinutes are integers: Math.round leaves the product as it is
             startingMinuteOfDay ==
                 IF r.startingMinuteOfDay # NULL THEN r.startingMinuteOfDay
                 ELSE IF r.grainIndex # NULL THEN Some(Val(r.grainIndex) * grainLengthMinutes)
                 ELSE NULL
         IN  IF startingMinuteOfDay = NULL THEN NULL
             ELSE LET relative == RelativeMinute(Val(startingMinuteOfDay))
                  IN  Some(Grain(Some(relative),
                                 Some(OrElse(r.grainIndex, relative \div Max(1, grainLengthMinutes))),
                                 IF dateIso = NULL THEN Some(EmptyStr) ELSE Some(DateOnlyStr(Val(dateIso)))))

\* mutant: the normalized grain replaces the one the payload carried
NormalizeJob_AlwaysNormalized(sj, grainLengthMinutes, tz) ==
    LET candidate == IF sj.startingTimeGrain # NULL THEN sj.startingTimeGrain ELSE sj.assignedTimeGrain
        norm      == normalizeGrain(candidate, grainLengthMinutes, tz)
    IN  [sj EXCEPT !.startingTimeGrain = norm]

\* scheduledJobs.map((sj) => ({ ...sj, startingTimeGrain: sj.startingTimeGrain ?? norm ?? undefined }))
NormalizeJob(sj, grainLengthMinutes, tz) ==
    LET candidate == IF sj.startingTimeGrain # NULL THEN sj.startingTimeGrain ELSE sj.assignedTimeGrain
        norm      == normalizeGrain(candidate, grainLengthMinutes, tz)
    IN  [sj EXCEPT !.startingTimeGrain = IF sj.startingTimeGrain # NULL THEN sj.startingTimeGrain ELSE norm]

normalizedScheduledJobs(sched, grainLengthMinutes, tz) ==
    [i \in 1..Len(JobList(sched)) |-> NormalizeJob(JobList(sched)[i], grainLengthMinutes, tz)]

(***************************************************************************)
(* Layout (MachineRow)                                                     *)
(***************************************************************************)
Digits == <<"0", "1", "2", "3", "4", "5", "6", "7", "8", "9">>

\* String(n) for n >= 0
RECURSIVE DecimalString(_)
DecimalString(n) ==
    IF n < 10 THEN Digits[n + 1] ELSE DecimalString(n \div 10) \o Digits[(n % 10) + 1]

\* String(n).padStart(2, "0")
PadStart2(n) == IF n < 10 THEN "0" \o DecimalString(n) ELSE DecimalString(n)

\* minOfDay >= 0 wherever the layout calls it
formatTimeFromMinutes(minOfDay) ==
    LET hours == minOfDay \div 60
        mins  == minOfDay % 60
    IN  PadStart2(hours) \o ":" \o PadStart2(mins)

MinimumBarWidth == 10

\* dayIndexMap[rawDay], NULL when rawDay is no key of the map
DayIndexOf(days, rawDay) ==
    IF rawDay # NULL /\ \E i \in 1..Len(days) : days[i] = Val(rawDay)
    THEN Some((CHOOSE i \in 1..Len(days) : days[i] = Val(rawDay)) - 1)
    ELSE NULL

\* mutant: the visible end is clipped without adding the start
MachineRowBar_EndWithoutStart(sj, days, grainLengthMinutes, ppm, tz) ==
    LET grain == sj.startingTimeGrain
        rawDay == LET n == normalizeDateOnlyIso(IF grain = NULL THEN NULL ELSE Val(grain).date, tz)
                  IN  IF n # NULL THEN n ELSE IF days = << >> THEN NULL ELSE Some(days[1])
        clampedDayIndex == Max(0, Min(Len(days) - 1, OrElse(DayIndexOf(days, rawDay), 0)))
        startRelative == IF grain = NULL THEN 0 ELSE OrElse(Val(grain).startingMinuteOfDay, 0)
        durationMinutes ==
            IF sj.job.durationMinutes # NULL THEN Val(sj.job.durationMinutes)
            ELSE IF sj.durationInGrains # NULL THEN Val(sj.durationInGrains) * grainLengthMinutes
            ELSE Min(8 * 60, VISIBLE_MINUTES_PER_DAY)
        visibleStartRel == Max(0, startRelative)
        visibleEndRel == Min(VISIBLE_MINUTES_PER_DAY, durationMinutes)
    IN  IF visibleEndRel <= visibleStartRel THEN NULL
        ELSE LET left == (clampedDayIndex * VISIBLE_MINUTES_PER_DAY + visibleStartRel) * ppm
                 width == Max(MinimumBarWidth * 100, (visibleEndRel - visibleStartRel) * ppm)
                 maxWidth == Max(0, Len(days) * VISIBLE_MINUTES_PER_DAY * ppm - left)
             IN  Some([scheduledJobUuid |-> sj.scheduledJobUuid,
                       rawDay           |-> rawDay,
                       dayIndex         |-> clampedDayIndex,
                       visibleStart     |-> visibleStartRel,
                       visibleEnd       |-> visibleEndRel,
                       durationMinutes  |-> durationMinutes,
                       left             |-> left,
                       width            |-> Min(width, maxWidth),
                       titleTime        |-> formatTimeFromMinutes(BUSINESS_START_MINUTES + Max(0, startRelative)),
                       startLabel       |-> formatTimeFromMinutes(BUSINESS_START_MINUTES + visibleStartRel),
                       endLabel         |-> formatTimeFromMinutes(BUSINESS_START_MINUTES + visibleEndRel)])

\* mutant: a grain count is taken as a number of minutes
GrainDurationMinutes_GrainsAsMinutes(sj, grainLengthMinutes) ==
    IF sj.durationInGrains # NULL THEN Val(sj.durationInGrains)
    ELSE Min(8 * 60, VISIBLE_MINUTES_PER_DAY)

\* sj.durationInGrains != null ? sj.durationInGrains * grainLengthMinutes : Math.min(8 * 60, VISIBLE)
GrainDurationMinutes(sj, grainLengthMinutes) ==
    IF sj.durationInGrains # NULL THEN Val(sj.durationInGrains) * grainLengthMinutes
    ELSE Min(8 * 60, VISIBLE_MINUTES_PER_DAY)

\* mutant: the grain count takes precedence over job.durationMinutes
DurationMinutes_GrainsFirst(sj, grainLengthMinutes) ==
    IF sj.durationInGrains # NULL THEN Val(sj.durationInGrains) * grainLengthMinutes
    ELSE IF sj.job.durationMinutes # NULL THEN Val(sj.job.durationMinutes)
    ELSE Min(8 * 60, VISIBLE_MINUTES_PER_DAY)

\* const durationMinutes = sj.job?.durationMinutes ?? (...)
DurationMinutes(sj, grainLengthMinutes) ==
    IF sj.job.durationMinutes # NULL THEN Val(sj.job.durationMinutes)
    ELSE GrainDurationMinutes(sj, grainLengthMinutes)

\* mutant: the width is not limited to what is left of the track
FinalWidth_NoTrackClamp(width, left, days, ppm) == width

\* maxWidth = Math.max(0, days.length * VISIBLE * ppm - left); finalWidth = Math.min(width, maxWidth)
FinalWidth(width, left, days, ppm) ==
    LET maxWidth == Max(0, Len(days) * VISIBLE_MINUTES_PER_DAY * ppm - left)
    IN  Min(width, maxWidth)

\* mutant: the end of the job is not clipped to the end of the business window
VisibleEndRel_Unclipped(jobEndRel) == jobEndRel

\* Math.min(VISIBLE_MINUTES_PER_DAY, jobEndRel)
VisibleEndRel(jobEndRel) == Min(VISIBLE_MINUTES_PER_DAY, jobEndRel)

\* mutant: no minimum width
BarWidth_NoMinimum(visibleDuration, ppm) == visibleDuration * ppm

\* Math.max(10, visibleDuration * pixelsPerMinute), hundredths of a pixel
BarWidth(visibleDuration, ppm) == Max(MinimumBarWidth * 100, visibleDuration * ppm)

\* mutant: a job without a usable date goes to the last day of the list
RawDay_FallsBackToLastDay(grain, days, tz) ==
    LET n == normalizeDateOnlyIso(IF grain = NULL THEN NULL ELSE Val(grain).date, tz)
    IN  IF n # NULL THEN n ELSE IF days = << >> THEN NULL ELSE Some(days[Len(days)])

\* normalizeDateOnlyIso(sj.startingTimeGrain?.date ?? null) ?? days[0]?.iso
RawDay(grain, days, tz) ==
    LET n == normalizeDateOnlyIso(IF grain = NULL THEN NULL ELSE Val(grain).date, tz)
    IN  IF n # NULL THEN n ELSE IF days = << >> THEN NULL ELSE Some(days[1])

\* machineJobs.map((sj) => ...): NULL when the job is not rendered, else the bar;
\* left and width are in hundredths of a pixel
MachineRowBar(sj, days, grainLengthMinutes, ppm, tz) ==
    LET grain == sj.startingTimeGrain
        rawDay == RawDay(grain, days, tz)
        clampedDayIndex == Max(0, Min(Len(days) - 1, OrElse(DayIndexOf(days, rawDay), 0)))
        startRelative == IF grain = NULL THEN 0 ELSE OrElse(Val(grain).startingMinuteOfDay, 0)
        durationMinutes == DurationMinutes(sj, grainLengthMinutes)
        jobEndRel == startRelative + durationMinutes
        visibleStartRel == Max(0, startRelative)
        visibleEndRel == VisibleEndRel(jobEndRel)
    IN  IF visibleEndRel <= visibleStartRel THEN NULL
        ELSE LET dayBase == clampedDayIndex * VISIBLE_MINUTES_PER_DAY
                 left == (dayBase + visibleStartRel) * ppm
                 visibleDuration == visibleEndRel - visibleStartRel
                 width == BarWidth(visibleDuration, ppm)
                 finalWidth == FinalWidth(width, left, days, ppm)
             IN  Some([scheduledJobUuid |-> sj.scheduledJobUuid,
                       rawDay           |-> rawDay,
                       dayIndex         |-> clampedDayIndex,
                       visibleStart     |-> visibleStartRel,
                       visibleEnd       |-> visibleEndRel,
                       durationMinutes  |-> durationMinutes,
                       left             |-> left,
                       width            |-> finalWidth,
                       titleTime        |-> formatTimeFromMinutes(BUSINESS_START_MINUTES + Max(0, startRelative)),
                       startLabel       |-> formatTimeFromMinutes(BUSINESS_START_MINUTES + visibleStartRel),
                       endLabel         |-> formatTimeFromMinutes(BUSINESS_START_MINUTES + visibleEndRel)])

MachineRow(machine, machineJobs, days, grainLengthMinutes, ppm, tz) ==
    [machine     |-> machine,
     machineJobs |-> machineJobs,
     bars        |-> [k \in 1..Len(machineJobs) |->
                        MachineRowBar(machineJobs[k], days, grainLengthMinutes, ppm, tz)]]

(***************************************************************************)
(* Timeline                                                                *)
(***************************************************************************)
\* mutant: the track width ignores the zoom
TrackWidth_Unzoomed(days, ppm) == Len(days) * VISIBLE_MINUTES_PER_DAY * DEFAULT_PIXELS_PER_MINUTE

\* days.length * VISIBLE_MINUTES_PER_DAY * pixelsPerMinute, hundredths of a pixel
TrackWidth(days, ppm) == Len(days) * VISIBLE_MINUTES_PER_DAY * ppm

\* mutant: the guard of the early return never fires
NoValidWeekStart_Never(weekStartIso) == FALSE

\* if (!weekStartIso) return <div>No valid week start date in schedule</div>
NoValidWeekStart(weekStartIso) == weekStartIso = NULL

LEFT_COL_WIDTH == 200

ROW_HEIGHT == 64

\* One render pass of Timeline: every memoized value, then either the message alone or the
\* zoom controls, the ruler, the rows and, while a job is selected, the backdrop and the popover
Render(sched, ppm, sel, tz) ==
    LET grainLengthMinutes == deriveGrainLength(sched)
        weekStartIso == WeekStartIso(sched, tz)
        days == TimelineDays(weekStartIso)
        machines == buildMachinesFromSchedule(sched)
        normalized == normalizedScheduledJobs(sched, grainLengthMinutes, tz)
        trackWidth == TrackWidth(days, ppm)
        message == NoValidWeekStart(weekStartIso)
    IN  [message            |-> message,
         grainLengthMinutes |-> grainLengthMinutes,
         weekStartIso       |-> weekStartIso,
         days               |-> days,
         trackWidth         |-> trackWidth,
         zoomControls       |-> ~message,
         ruler              |-> IF message THEN NULL
                                ELSE Some([days |-> days, trackWidth |-> trackWidth, pixelsPerMinute |-> ppm]),
         rows               |-> IF message THEN << >>
                                ELSE [i \in 1..Len(machines) |->
                                        MachineRow(machines[i], jobsForMachine(normalized, machines[i]),
                                                   days, grainLengthMinutes, ppm, tz)],
         popover            |-> IF message THEN NULL ELSE sel]

\* the hooks one render pass of Timeline calls, in call order: six useMemo (lines 117-147),
\* useState for the zoom, useMemo for trackWidth and, past the early return, useState for the
\* selection and useEffect for the Escape listener
HooksCalled(weekStartIso) ==
    <<"useMemo", "useMemo", "useMemo", "useMemo", "useMemo", "useMemo", "useState", "useMemo">>
        \o (IF NoValidWeekStart(weekStartIso) THEN << >> ELSE <<"useState", "useEffect">>)

\* React's record of the component after a render that completed
Committed(v) == Some([hooks |-> HooksCalled(v.weekStartIso), error |-> FALSE])

\* mutant: the normalized grain is assigned to the scheduled job itself, not to a copy
ScheduleAfterRender_NormalizesInPlace(sched, tz) ==
    IF sched.scheduledJobList = NULL THEN sched
    ELSE [sched EXCEPT !.scheduledJobList =
            Some(normalizedScheduledJobs(sched, deriveGrainLength(sched), tz))]

\* The schedule object as a render pass leaves it. deriveGrainLength, jobsForMachine (filter)
\* and MachineRow only read; buildMachinesFromSchedule sorts Array.from(map.values()), a new
\* array; normalizedScheduledJobs maps every job to a new object { ...sj, startingTimeGrain } and
\* normalizeGrain returns a new object: no field of the schedule or of its jobs is assigned
ScheduleAfterRender(sched, tz) == sched

\* mutant: the zoom has no upper bound
clamp_NoUpperBound(v) == Max(MIN_PIXELS_PER_MINUTE, v)

clamp(v) == Min(MAX_PIXELS_PER_MINUTE, Max(MIN_PIXELS_PER_MINUTE, v))

ZoomStep == 10

\* ---- schedules the Timeline is mounted with ----
WeekMonday == DaysFromCivil(2025, 11, 17)

DateOfWeek(k) == Some(DateOnlyStr(CivilFromDays(WeekMonday + k)))

\* days before (0, 2, 6) and inside (7, 9, 13) the list the Timeline computes, absent, unparsable
JobDates == {DateOfWeek(k) : k \in {0, 2, 6, 7, 9, 13}} \cup {NULL, Some(TextStr)}

StartMinutes == {-30, 0, 450, 659, 700}

\* <<job.durationMinutes, durationInGrains>>
Durations ==
    {<<Some(60), NULL>>, <<Some(5), NULL>>, <<Some(700), NULL>>,
     <<NULL, Some(12)>>, <<NULL, NULL>>, <<Some(30), Some(12)>>}

MachineM1 == Machine(<<"M", "1">>, Some(<<"M", "u">>))
MachineM1Alias == Machine(<<" ", "m", "1", " ">>, Some(<<"A", "d">>))

Wednesday == Some(DateOnlyStr(IsoDate(2025, 11, 19)))

\* one job, every combination of start, date and duration
GridSchedules ==
    {ServerSchedule(Wednesday, NULL,
        Some(<<ScheduledJob(1, Some(MachineM1), Some(Grain(Some(st), NULL, dt)), NULL, du[1], du[2])>>)) :
        st \in StartMinutes, dt \in JobDates, du \in Durations}

\* one job whose startingTimeGrain is missing or has no minute
AltGrains ==
    {NULL,
     Some(Grain(Some(450), NULL, DateOfWeek(8))),
     Some(Grain(NULL, Some(6), DateOfWeek(7))),
     Some(Grain(NULL, NULL, DateOfWeek(7)))}

GrainlessSchedules ==
    {ServerSchedule(Wednesday, NULL,
        Some(<<ScheduledJob(1, Some(MachineM1), NULL, alt, Some(60), NULL)>>)) : alt \in AltGrains}
      \cup
    {ServerSchedule(Wednesday, NULL,
        Some(<<ScheduledJob(1, Some(MachineM1), Some(Grain(NULL, Some(6), DateOfWeek(7))), NULL, Some(60), NULL)>>))}

\* two jobs: the first fixes the grain length, the second varies
PairSchedules ==
    {ServerSchedule(Wednesday, Some(<<MachineM1>>),
        Some(<<ScheduledJob(1, Some(MachineM1), Some(Grain(Some(0), NULL, DateOfWeek(7))), NULL, Some(first), Some(12)),
               ScheduledJob(2, am, Some(Grain(Some(st), NULL, DateOfWeek(8))), NULL, du[1], du[2])>>)) :
        first \in {60, 30},
        am \in {NULL, Some(MachineM1), Some(MachineM1Alias)},
        st \in {30, 450},
        du \in {<<NULL, Some(12)>>, <<Some(5), NULL>>}}

\* the same job under other week start dates
WeekStartSchedules ==
    {ServerSchedule(w, NULL,
        Some(<<ScheduledJob(1, Some(MachineM1), Some(Grain(Some(0), NULL, DateOfWeek(7))), NULL, Some(60), NULL)>>)) :
        w \in {NULL, Some(TextStr), Some(EmptyStr), Some(DateOnlyStr(IsoDate(2025, 13, 45))),
               Some(UtcStr(IsoDate(2025, 11, 17), 0)), Some(LocalStr(IsoDate(2025, 11, 23), 23))}}

TimelineSchedules == GridSchedules \cup GrainlessSchedules \cup PairSchedules \cup WeekStartSchedules

\* values the range input can report; clamp brings them into the zoom bounds
SliderValues == {10, 25, 250}

\* state after the first render of a mounted Timeline
Init ==
    /\ env = [tz |-> 0]
    /\ schedule \in TimelineSchedules
    /\ pc = "rendered"
    /\ result = NoResult
    /\ pixelsPerMinute = DEFAULT_PIXELS_PER_MINUTE
    /\ selected = NULL
    /\ view = Render(schedule, pixelsPerMinute, selected, env.tz)
    /\ login = NULL
    /\ fiber = Committed(view)
    /\ page = NULL
    /\ browser = NULL

\* setPixelsPerMinute(p) followed by the render it causes; the week start is the same as in
\* the render before, so the render calls the same hooks
SetZoom(p) ==
    /\ view.message = FALSE
    /\ pixelsPerMinute' = p
    /\ view' = Render(schedule, p, selected, env.tz)
    /\ schedule' = ScheduleAfterRender(schedule, env.tz)
    /\ UNCHANGED <<env, result, selected, login, fiber, page, browser>>

zoomIn == SetZoom(clamp(pixelsPerMinute + ZoomStep))

zoomOut == SetZoom(clamp(pixelsPerMinute - ZoomStep))

resetZoom == SetZoom(DEFAULT_PIXELS_PER_MINUTE)

onSlider(v) == SetZoom(clamp(v))

\* the layout of a mounted Timeline under every zoom; the selection has no part in the layout
\* and is exercised by SpecInteraction
Next ==
    \/ zoomIn /\ UNCHANGED pc
    \/ zoomOut /\ UNCHANGED pc
    \/ resetZoom /\ UNCHANGED pc
    \/ \E v \in SliderValues : onSlider(v) /\ UNCHANGED pc

Spec == Init /\ [][Next]_vars

(***************************************************************************)
(* Timeline: zoom and selection handlers                                   *)
(***************************************************************************)
\* the bars on screen, as <<row, position in the row>>
RenderedBars(v) ==
    {p \in (1..Len(v.rows)) \X (1..MaxJobs) :
        p[2] <= Len(v.rows[p[1]].bars) /\ v.rows[p[1]].bars[p[2]] # NULL}

\* bounding box of a bar in an unscrolled container, hundredths of a pixel: past the sticky
\* left column, 12 px (top-3) below the top of its row, ROW_HEIGHT - 18 high
BoundingClientRect(v, p) ==
    LET bar == Val(v.rows[p[1]].bars[p[2]])
    IN  [left   |-> LEFT_COL_WIDTH * 100 + bar.left,
         top    |-> ((p[1] - 1) * ROW_HEIGHT + 12) * 100,
         width  |-> bar.width,
         height |-> (ROW_HEIGHT - 18) * 100]

\* setSelected(s) followed by the render it causes
SetSelected(s) ==
    /\ selected' = s
    /\ view' = Render(schedule, pixelsPerMinute, s, env.tz)
    /\ schedule' = ScheduleAfterRender(schedule, env.tz)
    /\ UNCHANGED <<env, result, pixelsPerMinute, login, fiber, page, browser>>

\* mutant: a click while a job is selected is ignored
handleJobClick_KeepsSelection(job, anchorRect) ==
    SetSelected(IF selected = NULL THEN Some([job |-> job, anchorRect |-> anchorRect]) ELSE selected)

handleJobClick(job, anchorRect) == SetSelected(Some([job |-> job, anchorRect |-> anchorRect]))

\* a click on the bar at p: the row calls onJobClick with its job and the bar's bounding box
onJobClick(p) ==
    /\ p \in RenderedBars(view)
    /\ handleJobClick(view.rows[p[1]].machineJobs[p[2]], BoundingClientRect(view, p))

\* onMouseDown of the backdrop, which is rendered only while a job is selected
backdropMouseDown ==
    /\ view.popover # NULL
    /\ SetSelected(NULL)

\* onClose of JobPopover (its two close buttons)
onClose ==
    /\ view.popover # NULL
    /\ SetSelected(NULL)

Keys == {"Escape", "Enter"}

\* mutant: the listener looks for a key name no browser reports for the Escape key
onKey_WrongKeyName(key) ==
    IF view.popover # NULL /\ key = "Esc"
    THEN SetSelected(NULL)
    ELSE UNCHANGED <<env, schedule, result, pixelsPerMinute, selected, view, login, fiber, page, browser>>

\* a keydown on the document: onKey is registered by the effect only while a job is selected
onKey(key) ==
    IF view.popover # NULL /\ key = "Escape"
    THEN SetSelected(NULL)
    ELSE UNCHANGED <<env, schedule, result, pixelsPerMinute, selected, view, login, fiber, page, browser>>

\* the event handled last and the state it was handled in
Handled(event, arg) ==
    pc' = [event |-> event, arg |-> arg, selected |-> selected, pixelsPerMinute |-> pixelsPerMinute]

\* schedules of the interaction runs: two bars in one row, two rows, no valid week start
InteractionSchedules ==
    {ServerSchedule(Wednesday, Some(<<MachineM1>>),
        Some(<<ScheduledJob(1, Some(MachineM1), Some(Grain(Some(0), NULL, DateOfWeek(7))), NULL, Some(60), Some(12)),
               ScheduledJob(2, am, Some(Grain(Some(30), NULL, DateOfWeek(8))), NULL, NULL, Some(12))>>)) :
        am \in {NULL, Some(MachineM1)}}
      \cup
    {ServerSchedule(Some(TextStr), Some(<<MachineM1>>),
        Some(<<ScheduledJob(1, Some(MachineM1), Some(Grain(Some(0), NULL, DateOfWeek(7))), NULL, Some(60), NULL)>>))}

\* slider values below, inside and above the zoom bounds
InteractionSliderValues == {10, 90, 250}

InitInteraction ==
    /\ env = [tz |-> 0]
    /\ schedule \in InteractionSchedules
    /\ pc = [event |-> "mount", arg |-> NULL, selected |-> NULL, pixelsPerMinute |-> DEFAULT_PIXELS_PER_MINUTE]
    /\ result = NoResult
    /\ pixelsPerMinute = DEFAULT_PIXELS_PER_MINUTE
    /\ selected = NULL
    /\ view = Render(schedule, pixelsPerMinute, selected, env.tz)
    /\ login = NULL
    /\ fiber = Committed(view)
    /\ page = NULL
    /\ browser = NULL

NextInteraction ==
    \/ zoomIn /\ Handled("zoomIn", NULL)
    \/ zoomOut /\ Handled("zoomOut", NULL)
    \/ resetZoom /\ Handled("resetZoom", NULL)
    \/ \E v \in InteractionSliderValues : onSlider(v) /\ Handled("onSlider", Some(v))
    \/ \E p \in RenderedBars(view) : onJobClick(p) /\ Handled("click", Some(p))
    \/ backdropMouseDown /\ Handled("backdrop", NULL)
    \/ onClose /\ Handled("close", NULL)
    \/ \E key \in Keys : onKey(key) /\ Handled("keydown", Some(key))

SpecInteraction == InitInteraction /\ [][NextInteraction]_vars

(***************************************************************************)
(* Driver of the time normalizer                                           *)
(***************************************************************************)
\* raw minutes around the business window and around the sanity bound
RawMinutes == {-2000, -1441, -1440, -30, 0, 419, 420, 450, 660, 661, 1080, 1081, 1440, 1441, 2000}

RawGrainIndexes == {0, 6, 100, 300}

RawGrains ==
    {NULL} \cup
    {Some(Grain(mn, gi, dt)) :
        mn \in {NULL} \cup {Some(v) : v \in RawMinutes},
        gi \in {NULL} \cup {Some(v) : v \in RawGrainIndexes},
        dt \in {NULL, Some(TextStr), DateOfWeek(7)}}

\* <<job.durationMinutes, durationInGrains>> giving the grain lengths 5 (default), 5, 60 and 7
GrainLengthSources == {<<NULL, NULL>>, <<Some(60), Some(12)>>, <<Some(60), Some(1)>>, <<Some(7), Some(1)>>}

\* one job that carries the raw grain under startingTimeGrain or under assignedTimeGrain
InitNormalize ==
    /\ env = [tz |-> 0]
    /\ schedule \in
         {ServerSchedule(Wednesday, NULL, Some(<<ScheduledJob(1, Some(MachineM1), raw, NULL, du[1], du[2])>>)) :
             raw \in RawGrains, du \in GrainLengthSources}
           \cup
         {ServerSchedule(Wednesday, NULL, Some(<<ScheduledJob(1, Some(MachineM1), NULL, raw, du[1], du[2])>>)) :
             raw \in RawGrains, du \in GrainLengthSources}
    /\ pc = "start"
    /\ result = [grainLength |-> 0, candidate |-> NULL, grain |-> NULL]
    /\ TimelineIdle

\* normalizedScheduledJobs for the job: the candidate grain and what normalizeGrain makes of it
ApplyNormalizeGrain ==
    /\ pc = "start"
    /\ LET sj == JobList(schedule)[1]
           candidate == IF sj.startingTimeGrain # NULL THEN sj.startingTimeGrain ELSE sj.assignedTimeGrain
       IN  result' = [grainLength |-> deriveGrainLength(schedule),
                      candidate   |-> candidate,
                      grain       |-> normalizeGrain(candidate, deriveGrainLength(schedule), env.tz)]
    /\ pc' = "done"
    /\ UNCHANGED <<env, schedule, pixelsPerMinute, selected, view, login, fiber, page, browser>>

NextNormalize == ApplyNormalizeGrain

SpecNormalize == InitNormalize /\ [][NextNormalize]_vars

(***************************************************************************)
(* Timeline: mounting, and a parent that passes another schedule           *)
(***************************************************************************)
MachineM2 == Machine(<<"M", "2">>, Some(<<"A", "d">>))

\* a schedule whose first job has its grain under assignedTimeGrain and whose machine list is
\* not in name order, a second valid schedule, and two without a usable week start
PropsSchedules ==
    {ServerSchedule(Wednesday, Some(<<MachineM1, MachineM2>>),
        Some(<<ScheduledJob(1, Some(MachineM1), NULL, Some(Grain(Some(450), NULL, DateOfWeek(8))), Some(60), NULL),
               ScheduledJob(2, Some(MachineM2), Some(Grain(Some(0), NULL, DateOfWeek(7))), NULL, Some(60), NULL)>>)),
     ServerSchedule(Some(UtcStr(IsoDate(2025, 11, 17), 0)), NULL,
        Some(<<ScheduledJob(1, Some(MachineM1), Some(Grain(Some(0), NULL, DateOfWeek(7))), NULL, Some(60), NULL)>>)),
     ServerSchedule(Some(TextStr), Some(<<MachineM1>>),
        Some(<<ScheduledJob(1, Some(MachineM1), Some(Grain(Some(0), NULL, DateOfWeek(7))), NULL, Some(60), NULL)>>)),
     ServerSchedule(NULL, NULL, NULL)}

\* the Timeline is on screen: it was mounted and no render of it has thrown
Alive == fiber # NULL /\ Val(fiber).error = FALSE

\* the first render of <Timeline schedule={schedule} />
Mount ==
    /\ fiber = NULL
    /\ view' = Render(schedule, pixelsPerMinute, selected, env.tz)
    /\ fiber' = Committed(view')
    /\ schedule' = ScheduleAfterRender(schedule, env.tz)
    /\ UNCHANGED <<env, result, pixelsPerMinute, selected, login, page, browser>>

\* The parent renders <Timeline schedule={s} /> at the same place: React renders the mounted
\* component again with its state kept. An update must call the hooks of the previous render
\* in the same order; React throws "Rendered fewer hooks than expected" or "Rendered more
\* hooks than during the previous render" otherwise, and nothing is committed.
SetScheduleProp(s) ==
    /\ Alive
    /\ s # schedule
    /\ LET next == Render(s, pixelsPerMinute, selected, env.tz)
       IN  IF HooksCalled(next.weekStartIso) = Val(fiber).hooks
           THEN view' = next /\ fiber' = Committed(next)
           ELSE view' = NULL /\ fiber' = Some([Val(fiber) EXCEPT !.error = TRUE])
    /\ schedule' = ScheduleAfterRender(s, env.tz)
    /\ UNCHANGED <<env, result, pixelsPerMinute, selected, login, page, browser>>

InitProps ==
    /\ env = [tz |-> 0]
    /\ schedule \in PropsSchedules
    /\ pc = [event |-> "none", arg |-> NULL, selected |-> NULL, pixelsPerMinute |-> DEFAULT_PIXELS_PER_MINUTE]
    /\ result = NoResult
    /\ pixelsPerMinute = DEFAULT_PIXELS_PER_MINUTE
    /\ selected = NULL
    /\ view = NULL
    /\ login = NULL
    /\ fiber = NULL
    /\ page = NULL
    /\ browser = NULL

NextProps ==
    \/ Mount /\ Handled("mount", NULL)
    \/ \E s \in PropsSchedules : SetScheduleProp(s) /\ Handled("props", Some(s))
    \/ Alive /\ zoomIn /\ Handled("zoomIn", NULL)
    \/ Alive /\ resetZoom /\ Handled("resetZoom", NULL)
    \/ Alive /\ (\E p \in RenderedBars(view) : onJobClick(p) /\ Handled("click", Some(p)))
    \/ Alive /\ onClose /\ Handled("close", NULL)

SpecProps == InitProps /\ [][NextProps]_vars

(***************************************************************************)
(* LogInCard                                                               *)
(***************************************************************************)
MaxEmailLength == 5

MaxPasswordLength == 1

\* characters of the form fields: a letter, the two separators, white space
FieldChars == {"a", "@", ".", " "}

\* \S
NonSpace(c) == c # " "

\* mutant: the pattern stops after the host part, /\S+@\S+/
EmailPatternTest_NoDot(email) ==
    \E at \in 2..Len(email) :
        /\ email[at] = "@"
        /\ NonSpace(email[at - 1])
        /\ at + 1 <= Len(email)
        /\ NonSpace(email[at + 1])

\* /\S+@\S+\.\S+/.test(email): the pattern is searched anywhere in the string
EmailPatternTest(email) ==
    \E at \in 2..Len(email) : \E dot \in (at + 2)..(Len(email) - 1) :
        /\ email[at] = "@"
        /\ email[dot] = "."
        /\ NonSpace(email[at - 1])
        /\ \A q \in (at + 1)..(dot - 1) : NonSpace(email[q])
        /\ NonSpace(email[dot + 1])

LogInCardMounted ==
    [email |-> << >>, password |-> << >>, alert |-> NULL, submitted |-> NULL]

\* the form can be used: no alert is open and onSubmit has not navigated away
FormActive == login.alert = NULL /\ login.submitted = NULL

\* onChange of the email field after a key stroke: setEmail(e.target.value)
setEmail(v) ==
    /\ FormActive
    /\ login' = [login EXCEPT !.email = v]
    /\ UNCHANGED <<env, schedule, pc, result, pixelsPerMinute, selected, view, fiber, page, browser>>

\* onChange of the password field after a key stroke: setPassword(e.target.value)
setPassword(v) ==
    /\ FormActive
    /\ login' = [login EXCEPT !.password = v]
    /\ UNCHANGED <<env, schedule, pc, result, pixelsPerMinute, selected, view, fiber, page, browser>>

\* values a field can take by one key stroke: a character more, or the last one deleted
KeyStroke(value, maxLength) ==
    {Append(value, c) : c \in IF Len(value) < maxLength THEN FieldChars ELSE {}}
        \cup (IF value = << >> THEN {} ELSE {SubSeq(value, 1, Len(value) - 1)})

\* onSubmit of the form (noValidate: the browser does not check the fields itself)
handleSubmit ==
    /\ FormActive
    /\ login' =
          IF login.email = << >> \/ ~EmailPatternTest(login.email)
          THEN [login EXCEPT !.alert = Some("Invalid email")]
          ELSE IF login.password = << >>
          THEN [login EXCEPT !.alert = Some("Invalid password")]
          ELSE [login EXCEPT !.submitted = Some(<<login.email, login.password>>)]
    /\ UNCHANGED <<env, schedule, pc, result, pixelsPerMinute, selected, view, fiber, page, browser>>

\* the user closes the alert dialog
dismissAlert ==
    /\ login.alert # NULL
    /\ login' = [login EXCEPT !.alert = NULL]
    /\ UNCHANGED <<env, schedule, pc, result, pixelsPerMinute, selected, view, fiber, page, browser>>

InitLogin ==
    /\ env = [tz |-> 0]
    /\ schedule = ServerSchedule(NULL, NULL, NULL)
    /\ pc = "login"
    /\ result = NoResult
    /\ pixelsPerMinute = DEFAULT_PIXELS_PER_MINUTE
    /\ selected = NULL
    /\ view = NULL
    /\ login = LogInCardMounted
    /\ fiber = NULL
    /\ page = NULL
    /\ browser = NULL

NextLogin ==
    \/ \E v \in KeyStroke(login.email, MaxEmailLength) : setEmail(v)
    \/ \E v \in KeyStroke(login.password, MaxPasswordLength) : setPassword(v)
    \/ handleSubmit
    \/ dismissAlert

SpecLogin == InitLogin /\ [][NextLogin]_vars

(***************************************************************************)
(* apiFetch                                                                *)
(***************************************************************************)
API_BASE == "http://localhost:8080"

\* { ...a, ...b }: the keys of both, b's value where both have the key
Spread(a, b) == [n \in DOMAIN a \cup DOMAIN b |-> IF n \in DOMAIN b THEN b[n] ELSE a[n]]

\* if (token): null and the empty string are falsy
Truthy(token) == token # NULL /\ Val(token) # ""

\* the headers apiFetch passes to fetch
RequestHeaders(token, options) ==
    LET headers == Spread("Content-Type" :> "application/json", OrElse(options.headers, << >>))
    IN  IF Truthy(token)
        THEN Spread(headers, "Authorization" :> ("Bearer " \o Val(token)))
        ELSE headers

\* mutant: only 401 is taken as an authentication failure
AuthenticationFailed_Only401(status) == status = 401

\* response.status === 401 || response.status === 403
AuthenticationFailed(status) == status = 401 \/ status = 403

Tokens == {NULL, Some(""), Some("jwt")}

\* what the callers pass: no headers, their own Content-Type, another header
OptionHeaders == {NULL, Some("Content-Type" :> "text/plain"), Some("Accept" :> "application/json")}

Endpoints == {"/api/schedules/for-week", "/api/schedules/solve-for-week"}

Methods == {NULL, Some("POST")}

Statuses == {200, 204, 400, 401, 403, 404, 500}

\* before the call: what is stored, where the window is, and the arguments of the call
InitApi ==
    /\ env = [tz |-> 0]
    /\ schedule = ServerSchedule(NULL, NULL, NULL)
    /\ browser \in [accessToken : Tokens, href : {"/active"}]
    /\ pc = "start"
    /\ result \in [endpoint : Endpoints,
                    options  : [method : Methods, headers : OptionHeaders],
                    token    : {NULL},
                    request  : {NULL},
                    response : {NULL},
                    returned : {NULL},
                    thrown   : {NULL}]
    /\ pixelsPerMinute = DEFAULT_PIXELS_PER_MINUTE
    /\ selected = NULL
    /\ view = NULL
    /\ login = NULL
    /\ fiber = NULL
    /\ page = NULL

\* apiFetch up to its await: the token is read, the headers are built, fetch is called
apiFetchCall ==
    /\ pc = "start"
    /\ LET token == browser.accessToken
       IN  result' = [result EXCEPT
                        !.token = token,
                        !.request = Some([url     |-> API_BASE \o result.endpoint,
                                          method  |-> result.options.method,
                                          headers |-> RequestHeaders(token, result.options)])]
    /\ pc' = "fetching"
    /\ UNCHANGED <<env, schedule, pixelsPerMinute, selected, view, login, fiber, page, browser>>

\* fetch resolves with a response: apiFetch after its await
apiFetchResponse(status) ==
    /\ pc = "fetching"
    /\ IF AuthenticationFailed(status)
       THEN /\ browser' = [accessToken |-> NULL, href |-> "/login"]
            /\ result' = [result EXCEPT !.response = Some([status |-> status]),
                                         !.thrown = Some("Authentication failed")]
       ELSE /\ browser' = browser
            /\ result' = [result EXCEPT !.response = Some([status |-> status]),
                                         !.returned = Some([status |-> status])]
    /\ pc' = "done"
    /\ UNCHANGED <<env, schedule, pixelsPerMinute, selected, view, login, fiber, page>>

\* fetch rejects (no connection): the rejection passes through apiFetch
apiFetchNetworkError ==
    /\ pc = "fetching"
    /\ result' = [result EXCEPT !.thrown = Some("TypeError")]
    /\ pc' = "done"
    /\ UNCHANGED <<env, schedule, pixelsPerMinute, selected, view, login, fiber, page, browser>>

NextApi ==
    \/ apiFetchCall
    \/ \E status \in Statuses : apiFetchResponse(status)
    \/ apiFetchNetworkError

SpecApi == InitApi /\ [][NextApi]_vars

(***************************************************************************)
(* Active page: the effect that loads the week's schedule                  *)
(***************************************************************************)
MaxLoads == 2

\* <<weekStartISO, weekEndISO>> of two weeks
WeekRanges ==
    {<<"2025-11-17T00:00:00.000Z", "2025-11-24T00:00:00.000Z">>,
     <<"2025-11-24T00:00:00.000Z", "2025-12-01T00:00:00.000Z">>}

\* state after the first render: no range yet, so the load effect did not call load()
ActiveMounted ==
    [mounted      |-> TRUE,
     weekStartISO |-> "",
     weekEndISO   |-> "",
     schedule     |-> NULL,
     loading      |-> TRUE,
     error        |-> NULL,
     loads        |-> << >>]

\* the document of the page is loaded: apiFetch has not sent the window to /login
OnActivePage == browser.href = "/active"

\* return () => { canceled = true }: the flag of the closure of the effect that ran last
Cleanup(p) ==
    IF p.loads = << >> THEN p ELSE [p EXCEPT !.loads[Len(p.loads)].canceled = TRUE]

\* mutant: the state is set whether or not the effect was cleaned up
UnlessCanceled_Ignored(load, current, updated) == updated

\* if (!canceled) ...
UnlessCanceled(load, current, updated) == IF load.canceled THEN current ELSE updated

\* setWeekStartISO / setWeekEndISO with another range: the load effect is cleaned up and runs
\* again; load() sets loading, clears error and schedule and calls apiFetch
SetWeekRange(r) ==
    /\ OnActivePage
    /\ page.mounted
    /\ r[1] # page.weekStartISO
    /\ Len(page.loads) < MaxLoads
    /\ page' = [Cleanup(page) EXCEPT
                  !.weekStartISO = r[1],
                  !.weekEndISO = r[2],
                  !.loading = TRUE,
                  !.error = NULL,
                  !.schedule = NULL,
                  !.loads = Append(Cleanup(page).loads,
                                   [weekStart |-> r[1], canceled |-> FALSE, at |-> "fetch", outcome |-> NULL, err |-> NULL])]
    /\ UNCHANGED <<env, schedule, pc, result, pixelsPerMinute, selected, view, login, fiber, browser>>

\* the page is left: the effect is cleaned up
Unmount ==
    /\ OnActivePage
    /\ page.mounted
    /\ page' = [Cleanup(page) EXCEPT !.mounted = FALSE]
    /\ UNCHANGED <<env, schedule, pc, result, pixelsPerMinute, selected, view, login, fiber, browser>>

\* load i is waiting at one of its awaits
Waiting(i, at) == OnActivePage /\ i \in 1..Len(page.loads) /\ page.loads[i].at = at

\* catch (err): setError unless canceled; finally: setLoading(false) unless canceled
Catch(i, err) ==
    page' = [UnlessCanceled(page.loads[i], page,
                 [page EXCEPT !.error = Some("Failed to load active schedule."), !.loading = FALSE])
             EXCEPT !.loads[i].at = "settled", !.loads[i].outcome = Some("error"), !.loads[i].err = Some(err)]

\* await apiFetch(...) resolves or, for 401 and 403, throws after removing the token and
\* sending the window to /login
FetchResponds(i, status) ==
    /\ Waiting(i, "fetch")
    /\ IF AuthenticationFailed(status)
       THEN Catch(i, "Authentication failed") /\ browser' = [accessToken |-> NULL, href |-> "/login"]
       ELSE /\ page' = [page EXCEPT !.loads[i].at = IF status \in 200..299 THEN "json" ELSE "text"]
            /\ browser' = browser
    /\ UNCHANGED <<env, schedule, pc, result, pixelsPerMinute, selected, view, login, fiber>>

\* fetch rejects (no connection)
FetchRejects(i) ==
    /\ Waiting(i, "fetch")
    /\ Catch(i, "Failed to fetch")
    /\ UNCHANGED <<env, schedule, pc, result, pixelsPerMinute, selected, view, login, fiber, browser>>

\* !resp.ok: await resp.text().catch(() => "") resolves, then throw new Error("Request failed")
TextResolves(i) ==
    /\ Waiting(i, "text")
    /\ Catch(i, "Request failed")
    /\ UNCHANGED <<env, schedule, pc, result, pixelsPerMinute, selected, view, login, fiber, browser>>

\* bodies of an ok response: a schedule, "exists" without a schedule, no schedule
ResponseData(i) ==
    {[exists |-> TRUE, schedule |-> Some([weekStartDate |-> page.loads[i].weekStart])],
     [exists |-> TRUE, schedule |-> NULL],
     [exists |-> FALSE, schedule |-> NULL]}

\* await resp.json() resolves: setSchedule unless canceled; finally: setLoading(false) unless canceled
JsonResolves(i, data) ==
    /\ Waiting(i, "json")
    /\ page' = [UnlessCanceled(page.loads[i], page,
                    [page EXCEPT !.schedule = IF data.exists THEN data.schedule ELSE NULL,
                                 !.loading = FALSE])
                EXCEPT !.loads[i].at = "settled",
                       !.loads[i].outcome = Some(IF data.exists /\ data.schedule # NULL THEN "schedule" ELSE "none")]
    /\ UNCHANGED <<env, schedule, pc, result, pixelsPerMinute, selected, view, login, fiber, browser>>

\* await resp.json() rejects (the body is no JSON)
JsonRejects(i) ==
    /\ Waiting(i, "json")
    /\ Catch(i, "Unexpected token")
    /\ UNCHANGED <<env, schedule, pc, result, pixelsPerMinute, selected, view, login, fiber, browser>>

InitActive ==
    /\ env = [tz |-> 0]
    /\ schedule = ServerSchedule(NULL, NULL, NULL)
    /\ pc = "active"
    /\ result = NoResult
    /\ pixelsPerMinute = DEFAULT_PIXELS_PER_MINUTE
    /\ selected = NULL
    /\ view = NULL
    /\ login = NULL
    /\ fiber = NULL
    /\ page = ActiveMounted
    /\ browser = [accessToken |-> Some("jwt"), href |-> "/active"]

NextActive ==
    \/ \E r \in WeekRanges : SetWeekRange(r)
    \/ Unmount
    \/ \E i \in 1..Len(page.loads) : \E status \in {200, 401, 403, 500} : FetchResponds(i, status)
    \/ \E i \in 1..Len(page.loads) : FetchRejects(i)
    \/ \E i \in 1..Len(page.loads) : TextResolves(i)
    \/ \E i \in 1..Len(page.loads) : \E data \in ResponseData(i) : JsonResolves(i, data)
    \/ \E i \in 1..Len(page.loads) : JsonRejects(i)

SpecActive == InitActive /\ [][NextActive]_vars

(***************************************************************************)
(* Jobs page (SchedulingJobs): loadForWeek and the requests it awaits      *)
(***************************************************************************)
MaxCalls == 2

\* route parameters: two week ids and the default of a route without one (a date)
WeekIds == {"Week47-2025", "Week48-2025", "2025-11-17"}

\* /^Week(\d+)-(\d{4})$/ on the ids above
parseISOWeekId(id) ==
    CASE id = "Week47-2025" -> Some([week |-> 47, year |-> 2025])
      [] id = "Week48-2025" -> Some([week |-> 48, year |-> 2025])
      [] OTHER -> NULL

\* what the server holds for a week, and all of it (GET /api/jobs)
ServerJobs(weekId) == <<[jobUuid |-> "job of " \o weekId, deadline |-> weekId]>>

AllServerJobs == ServerJobs("Week47-2025") \o ServerJobs("Week48-2025")

\* .map((j) => ({ uuid: j.jobUuid, ..., deadline: j.deadline, ... }))
MapJobs(serverJobs) ==
    [k \in 1..Len(serverJobs) |-> [uuid |-> serverJobs[k].jobUuid, deadline |-> serverJobs[k].deadline]]

\* bodies of an ok answer of /api/schedules/for-week: scheduled jobs, or candidates only
ForWeekData(weekId) ==
    {[scheduledJobs |-> ServerJobs(weekId), candidateJobs |-> << >>],
     [scheduledJobs |-> << >>, candidateJobs |-> ServerJobs(weekId)]}

\* outcomes of an awaited fetch: ok, a status that is not ok, a rejection
FetchOutcomes == {"ok", "status", "reject"}

\* state after the first render with the route's week; the effect has called fetchMachineTypes
JobsMounted(weekId) ==
    [selectedWeekStart |-> weekId,
     jobs              |-> << >>,
     rawJobs           |-> << >>,
     scheduledJobs     |-> << >>,
     candidateJobs     |-> << >>,
     loading           |-> FALSE,
     calls             |-> <<[weekId |-> weekId, at |-> "machine-types"]>>]

\* the calls without call i, which has run to its end
Finished(calls, i) == SubSeq(calls, 1, i - 1) \o SubSeq(calls, i + 1, Len(calls))

\* useEffect on [rawJobs, machineTypes, candidateJobs.length, scheduledJobs.length]: fills jobs
\* from rawJobs when nothing else is loaded
RawJobsEffect(before, after, newArray) ==
    IF /\ \/ newArray
          \/ after.rawJobs # before.rawJobs
          \/ Len(after.candidateJobs) # Len(before.candidateJobs)
          \/ Len(after.scheduledJobs) # Len(before.scheduledJobs)
       /\ Len(after.rawJobs) > 0
       /\ Len(after.candidateJobs) = 0
       /\ Len(after.scheduledJobs) = 0
    THEN [after EXCEPT !.jobs = MapJobs(after.rawJobs)]
    ELSE after

\* loadForWeek up to its first await, in the closure of the render that selected calls[i].weekId
loadForWeek(p, i) ==
    IF parseISOWeekId(p.calls[i].weekId) = NULL
    THEN [p EXCEPT !.scheduledJobs = << >>, !.candidateJobs = << >>, !.rawJobs = << >>,
                   !.jobs = << >>, !.calls = Finished(p.calls, i)]
    ELSE [p EXCEPT !.loading = TRUE, !.scheduledJobs = << >>, !.candidateJobs = << >>,
                   !.rawJobs = << >>, !.calls[i].at = "for-week"]

\* fetchAllJobs up to its fetch
fetchAllJobs(p, i) == [p EXCEPT !.loading = TRUE, !.calls[i].at = "all-jobs"]

InFlight(i, at) == i \in 1..Len(page.calls) /\ page.calls[i].at = at

JobsPageUnchanged == UNCHANGED <<env, schedule, pc, result, pixelsPerMinute, selected, view, login, fiber, browser>>

\* the route's week changes: setSelectedWeekStart, then the effect calls fetchMachineTypes
setSelectedWeekStart(weekId) ==
    /\ weekId # page.selectedWeekStart
    /\ Len(page.calls) < MaxCalls
    /\ page' = [page EXCEPT !.selectedWeekStart = weekId,
                            !.calls = Append(page.calls, [weekId |-> weekId, at |-> "machine-types"])]
    /\ JobsPageUnchanged

\* handleCreateJob: POST /api/jobs
handleCreateJob ==
    /\ Len(page.calls) < MaxCalls
    /\ page' = [page EXCEPT !.calls = Append(page.calls, [weekId |-> page.selectedWeekStart, at |-> "post"])]
    /\ JobsPageUnchanged

\* handleDeleteJobs with some displayed jobs selected and confirmed: DELETE for each
handleDeleteJobs ==
    /\ Len(page.calls) < MaxCalls
    /\ Len(page.jobs) > 0
    /\ page' = [page EXCEPT !.calls = Append(page.calls, [weekId |-> page.selectedWeekStart, at |-> "delete"])]
    /\ JobsPageUnchanged

\* fetchMachineTypes settles (with the types or, after a failure, with []): loadForWeek(mapped)
MachineTypesSettle(i) ==
    /\ InFlight(i, "machine-types")
    /\ page' = RawJobsEffect(page, loadForWeek(page, i), TRUE)
    /\ JobsPageUnchanged

\* the POST or the DELETEs settle: loadForWeek() when ok, nothing more otherwise
ChangeSettles(i, ok) ==
    /\ InFlight(i, "post") \/ InFlight(i, "delete")
    /\ page' = IF ok THEN RawJobsEffect(page, loadForWeek(page, i), FALSE)
                    ELSE [page EXCEPT !.calls = Finished(page.calls, i)]
    /\ JobsPageUnchanged

\* await fetch(`/api/schedules/for-week?week=...`)
ForWeekSettles(i, outcome, data) ==
    /\ InFlight(i, "for-week")
    /\ page' = RawJobsEffect(page,
                   CASE outcome = "ok" ->
                          [page EXCEPT !.scheduledJobs = data.scheduledJobs,
                                       !.candidateJobs = data.candidateJobs,
                                       !.jobs = IF Len(data.scheduledJobs) > 0
                                                THEN MapJobs(data.scheduledJobs)
                                                ELSE MapJobs(data.candidateJobs),
                                       !.loading = FALSE,
                                       !.calls = Finished(page.calls, i)]
                     [] outcome = "status" -> [page EXCEPT !.calls[i].at = "schedule"]
                     [] OTHER -> fetchAllJobs(page, i),
                   FALSE)
    /\ JobsPageUnchanged

\* await fetch(`/api/schedules/${weekId}`)
ScheduleSettles(i, outcome) ==
    /\ InFlight(i, "schedule")
    /\ page' = RawJobsEffect(page,
                   CASE outcome = "ok" ->
                          [page EXCEPT !.scheduledJobs = ServerJobs(page.calls[i].weekId),
                                       !.jobs = MapJobs(ServerJobs(page.calls[i].weekId)),
                                       !.loading = FALSE,
                                       !.calls = Finished(page.calls, i)]
                     [] outcome = "status" -> [page EXCEPT !.calls[i].at = "by-deadline"]
                     [] OTHER -> fetchAllJobs(page, i),
                   FALSE)
    /\ JobsPageUnchanged

\* await fetch(`/api/jobs?deadlineFrom=...&deadlineTo=...`)
JobsByDeadlineSettle(i, outcome) ==
    /\ InFlight(i, "by-deadline")
    /\ page' = RawJobsEffect(page,
                   CASE outcome = "ok" ->
                          [page EXCEPT !.candidateJobs = ServerJobs(page.calls[i].weekId),
                                       !.jobs = MapJobs(ServerJobs(page.calls[i].weekId)),
                                       !.loading = FALSE,
                                       !.calls = Finished(page.calls, i)]
                     [] OTHER -> fetchAllJobs(page, i),
                   FALSE)
    /\ JobsPageUnchanged

\* fetchAllJobs settles: setRawJobs(data) or setRawJobs([]), then both finally blocks
AllJobsSettle(i, ok) ==
    /\ InFlight(i, "all-jobs")
    /\ page' = RawJobsEffect(page,
                   [page EXCEPT !.rawJobs = IF ok THEN AllServerJobs ELSE << >>,
                                !.loading = FALSE,
                                !.calls = Finished(page.calls, i)],
                   TRUE)
    /\ JobsPageUnchanged

InitJobs ==
    /\ env = [tz |-> 0]
    /\ schedule = ServerSchedule(NULL, NULL, NULL)
    /\ pc = "jobs"
    /\ result = NoResult
    /\ pixelsPerMinute = DEFAULT_PIXELS_PER_MINUTE
    /\ selected = NULL
    /\ view = NULL
    /\ login = NULL
    /\ fiber = NULL
    /\ page \in {JobsMounted(weekId) : weekId \in WeekIds}
    /\ browser = NULL

NextJobs ==
    \/ \E weekId \in WeekIds : setSelectedWeekStart(weekId)
    \/ handleCreateJob
    \/ handleDeleteJobs
    \/ \E i \in 1..Len(page.calls) : MachineTypesSettle(i)
    \/ \E i \in 1..Len(page.calls) : \E ok \in BOOLEAN : ChangeSettles(i, ok)
    \/ \E i \in 1..Len(page.calls) : \E outcome \in FetchOutcomes :
           \E data \in ForWeekData(page.calls[i].weekId) : ForWeekSettles(i, outcome, data)
    \/ \E i \in 1..Len(page.calls) : \E outcome \in FetchOutcomes : ScheduleSettles(i, outcome)
    \/ \E i \in 1..Len(page.calls) : \E outcome \in FetchOutcomes : JobsByDeadlineSettle(i, outcome)
    \/ \E i \in 1..Len(page.calls) : \E ok \in BOOLEAN : AllJobsSettle(i, ok)

SpecJobs == InitJobs /\ [][NextJobs]_vars

(***************************************************************************)
(* Properties of the pure functions                                        *)
(***************************************************************************)
DayNumber(iso) == DaysFromCivil(iso.y, iso.m, iso.d)

\* C4: the days list computed from a valid weekStartDate is the 7 consecutive dates of
\* the displayed week: days[i] is the snapped Monday plus i days, i in 0..6.
C4_DaysAreDisplayedWeek ==
    (pc \in {"days", "done"} /\ result.week # NULL) =>
        /\ Len(result.days) = 7
        /\ \A i \in 0..6 : result.days[i + 1] = CivilFromDays(DayNumber(Val(result.week)) + i)

JobHasMachine(sj) == sj.assignedMachine # NULL

RowsHolding(sj) ==
    {i \in 1..Len(result.rows) :
        \E k \in 1..Len(result.rows[i]) : result.rows[i][k].scheduledJobUuid = sj.scheduledJobUuid}

TimesInRow(sj, i) ==
    Cardinality({k \in 1..Len(result.rows[i]) : result.rows[i][k].scheduledJobUuid = sj.scheduledJobUuid})

\* C5: the machine rows partition the scheduled jobs: a job with an assigned machine is in
\* exactly one row, the one whose normalized id equals its machine's; a job without one is
\* in the "unassigned" row and in no other.
C5_RowsPartitionJobs ==
    pc = "done" =>
        \A j \in 1..Len(JobList(schedule)) :
            LET sj == JobList(schedule)[j]
                wanted == IF JobHasMachine(sj)
                          THEN Trim(ToLowerCase(Val(sj.assignedMachine).machineUuid))
                          ELSE UnassignedId
            IN  /\ Cardinality(RowsHolding(sj)) = 1
                /\ \A i \in RowsHolding(sj) :
                      /\ TimesInRow(sj, i) = 1
                      /\ Trim(ToLowerCase(result.machines[i].machineUuid)) = wanted

C5_Witness ==
    /\ pc = "done"
    /\ Len(JobList(schedule)) = 2
    /\ \E j \in 1..2 : ~JobHasMachine(JobList(schedule)[j])
    /\ \E j \in 1..2, i \in 1..Len(result.rows) :
          LET sj == JobList(schedule)[j]
          IN  /\ JobHasMachine(sj)
              /\ Val(sj.assignedMachine).machineUuid = <<" ", "m", "1", " ">>
              /\ result.machines[i].machineUuid = <<"M", "1">>
              /\ i \in RowsHolding(sj)
    /\ \E i \in 1..Len(result.rows) :
          result.machines[i].machineUuid = UnassignedId /\ Len(result.rows[i]) = 1

\* machine list first, then every job's assigned machine (or the placeholder), in list order
Candidates ==
    OrElse(schedule.machineList, << >>)
        \o [j \in 1..Len(JobList(schedule)) |->
               IF JobHasMachine(JobList(schedule)[j])
               THEN Val(JobList(schedule)[j].assignedMachine)
               ELSE [machineUuid |-> UnassignedId, name |-> Some(UnassignedName)]]

KeyOf(m) == Trim(ToLowerCase(m.machineUuid))

\* C6: buildMachinesFromSchedule returns exactly one entry per normalized machine id, and
\* that entry is the first one seen (machine list before assigned machines).
C6_OneEntryPerIdFirstSeen ==
    pc = "done" =>
        /\ \A i, j \in 1..Len(result.machines) :
              KeyOf(result.machines[i]) = KeyOf(result.machines[j]) => i = j
        /\ \A c \in 1..Len(Candidates) :
              (\A b \in 1..(c - 1) : KeyOf(Candidates[b]) # KeyOf(Candidates[c])) =>
                  \E i \in 1..Len(result.machines) : result.machines[i] = Candidates[c]

C6_Witness ==
    /\ pc = "done"
    /\ schedule.machineList # NULL
    /\ Len(Val(schedule.machineList)) >= 1
    /\ Val(schedule.machineList)[1].machineUuid = <<"M", "1">>
    /\ \E j \in 1..Len(JobList(schedule)) :
          /\ JobHasMachine(JobList(schedule)[j])
          /\ Val(JobList(schedule)[j].assignedMachine).machineUuid = <<" ", "m", "1", " ">>
    /\ Cardinality({i \in 1..Len(result.machines) : KeyOf(result.machines[i]) = <<"m", "1">>}) = 1
    /\ \E i \in 1..Len(result.machines) : result.machines[i] = Val(schedule.machineList)[1]

NoExplicitUnassigned ==
    /\ \A c \in 1..Len(OrElse(schedule.machineList, << >>)) :
          KeyOf(Val(schedule.machineList)[c]) # UnassignedId
    /\ \A j \in 1..Len(JobList(schedule)) :
          JobHasMachine(JobList(schedule)[j]) =>
              KeyOf(Val(JobList(schedule)[j].assignedMachine)) # UnassignedId

UnassignedEntries ==
    {i \in 1..Len(result.machines) :
        /\ result.machines[i].machineUuid = UnassignedId
        /\ result.machines[i].name = Some(UnassignedName)}

\* C7: when some job lacks an assigned machine and no explicit "unassigned" machine is
\* present, the output has exactly one entry with id "unassigned" and name "Unassigned".
C7_ExactlyOneUnassigned ==
    (/\ pc = "done"
     /\ \E j \in 1..Len(JobList(schedule)) : ~JobHasMachine(JobList(schedule)[j])
     /\ NoExplicitUnassigned) =>
        /\ Cardinality(UnassignedEntries) = 1
        /\ Cardinality({i \in 1..Len(result.machines) : KeyOf(result.machines[i]) = UnassignedId}) = 1

C7_Witness ==
    /\ pc = "done"
    /\ Len(JobList(schedule)) = 2
    /\ \A j \in 1..2 : ~JobHasMachine(JobList(schedule)[j])
    /\ schedule.machineList # NULL
    /\ Len(Val(schedule.machineList)) = 1
    /\ NoExplicitUnassigned
    /\ Cardinality(UnassignedEntries) = 1
    /\ Len(result.machines) = 2

HasBoth(sj) == sj.job.durationMinutes # NULL /\ sj.durationInGrains # NULL

Qualifies(sj) == HasBoth(sj) /\ Val(sj.durationInGrains) > 0

FirstQualifying ==
    CHOOSE i \in 1..Len(JobList(schedule)) :
        /\ Qualifies(JobList(schedule)[i])
        /\ \A b \in 1..(i - 1) : ~Qualifies(JobList(schedule)[b])

\* r is D/G rounded to the nearest integer, halves up: r - 1/2 <= D/G < r + 1/2
IsRounded(r, D, G) == (2 * r - 1) * G <= 2 * D /\ 2 * D < (2 * r + 1) * G

\* C8 as stated: the result is round(D/G) of the first job with both fields and G > 0,
\* and 5 when there are no jobs or no job has both fields.
C8_RoundOfFirst ==
    pc = "done" =>
        IF \E i \in 1..Len(JobList(schedule)) : Qualifies(JobList(schedule)[i])
        THEN LET sj == JobList(schedule)[FirstQualifying]
             IN  IsRounded(result.grainLength, Val(sj.job.durationMinutes), Val(sj.durationInGrains))
        ELSE (\A i \in 1..Len(JobList(schedule)) : ~HasBoth(JobList(schedule)[i])) =>
                 result.grainLength = 5

\* C8 (amended): the result is max(1, round(D/G)) of the first job with both fields and
\* G > 0, and 5 when there are no jobs or no job has both fields.
C8_RoundOfFirstAtLeastOne ==
    pc = "done" =>
        IF \E i \in 1..Len(JobList(schedule)) : Qualifies(JobList(schedule)[i])
        THEN LET sj == JobList(schedule)[FirstQualifying]
                 D  == Val(sj.job.durationMinutes)
                 G  == Val(sj.durationInGrains)
             IN  IF 2 * D < G THEN result.grainLength = 1
                 ELSE IsRounded(result.grainLength, D, G)
        ELSE (\A i \in 1..Len(JobList(schedule)) : ~HasBoth(JobList(schedule)[i])) =>
                 result.grainLength = 5

C8_Witness ==
    /\ pc = "done"
    /\ Len(JobList(schedule)) = 2
    /\ ~Qualifies(JobList(schedule)[1])
    /\ HasBoth(JobList(schedule)[1])
    /\ JobList(schedule)[2].job.durationMinutes = Some(5)
    /\ JobList(schedule)[2].durationInGrains = Some(2)
    /\ result.grainLength = 3

\* C9: for every date d, startOfWeekIso(normalizeDateOnlyIso(d)) is a Monday, is the same
\* date for all 7 dates (Monday through Sunday) of d's ISO week, and is a fixed point of
\* startOfWeekIso.
C9_WeekSnapping ==
    (pc \in {"snapped", "days", "done"} /\ result.norm # NULL /\ IsCalendarDate(Val(result.norm))) =>
        /\ result.week # NULL
        /\ LET d == DayNumber(Val(result.norm))
               w == DayNumber(Val(result.week))
           IN  /\ UTCDay(w) = 1
               /\ w <= d /\ d <= w + 6
               /\ \A k \in 0..6 : startOfWeekIso(Some(CivilFromDays(w + k))) = result.week
        /\ pc = "done" => result.again = result.week

C9_Witness ==
    /\ pc = "done"
    /\ Val(schedule.weekStartDate).kind = "date"
    /\ result.norm = Some(IsoDate(2026, 1, 4))
    /\ result.week = Some(IsoDate(2025, 12, 29))
    /\ result.again = result.week

(***************************************************************************)
(* Properties of the rendered Timeline                                     *)
(***************************************************************************)
\* positions <<row, job>> of the jobs handed to the machine rows of the last render
Handed == {<<i, k>> \in (1..Len(view.rows)) \X (1..2) : k <= Len(view.rows[i].machineJobs)}

HandedJob(p) == view.rows[p[1]].machineJobs[p[2]]

BarOf(p) == view.rows[p[1]].bars[p[2]]

HasStart(sj) == sj.startingTimeGrain # NULL /\ Val(sj.startingTimeGrain).startingMinuteOfDay # NULL

StartOf(sj) == Val(Val(sj.startingTimeGrain).startingMinuteOfDay)

EffectiveDuration(sj) ==
    IF sj.job.durationMinutes # NULL THEN Val(sj.job.durationMinutes)
    ELSE IF sj.durationInGrains # NULL THEN Val(sj.durationInGrains) * view.grainLengthMinutes
    ELSE 480

\* C1: a job handed to MachineRow with window-relative start s and effective duration d is
\* rendered iff min(660, s+d) > max(0, s); when rendered its visible interval is exactly
\* [max(0, s), min(660, s+d)] and its width is not zero.
C1_ClippingDecidesRendering ==
    \A p \in Handed :
        HasStart(HandedJob(p)) =>
            LET s  == StartOf(HandedJob(p))
                d  == EffectiveDuration(HandedJob(p))
                lo == IF s > 0 THEN s ELSE 0
                hi == IF s + d < 660 THEN s + d ELSE 660
            IN  /\ (BarOf(p) # NULL) <=> (hi > lo)
                /\ BarOf(p) # NULL =>
                      /\ Val(BarOf(p)).visibleStart = lo
                      /\ Val(BarOf(p)).visibleEnd = hi
                      /\ Val(BarOf(p)).width > 0

C1_Witness ==
    \E p \in Handed :
        /\ HasStart(HandedJob(p))
        /\ StartOf(HandedJob(p)) = -30
        /\ EffectiveDuration(HandedJob(p)) = 60
        /\ BarOf(p) # NULL
        /\ Val(BarOf(p)).visibleStart = 0
        /\ Val(BarOf(p)).visibleEnd = 30

\* the job of the schedule that a handed job was made from
RawJob(sj) ==
    JobList(schedule)[CHOOSE j \in 1..Len(JobList(schedule)) :
                         JobList(schedule)[j].scheduledJobUuid = sj.scheduledJobUuid]

\* C2: a job whose raw startingTimeGrain.startingMinuteOfDay is an absolute clock minute m in
\* [420, 1080] reaches MachineRow with relative minute m - 420, and its start label shows
\* clock time m.
C2_AbsoluteMinuteMadeRelative ==
    \A p \in Handed :
        LET raw == RawJob(HandedJob(p))
        IN  (HasStart(raw) /\ StartOf(raw) >= 420 /\ StartOf(raw) <= 1080) =>
                /\ HasStart(HandedJob(p))
                /\ StartOf(HandedJob(p)) = StartOf(raw) - 420
                /\ BarOf(p) # NULL =>
                      Val(BarOf(p)).startLabel = formatTimeFromMinutes(StartOf(raw))

\* C3: with the week snapped to Monday M, a rendered job whose normalized date is M+k days
\* (k in 0..6) is on day index k and its left edge is (k*660 + visibleStart) * pixelsPerMinute.
C3_DayIndexFollowsDate ==
    view.message = FALSE =>
        \A p \in Handed : \A k \in 0..6 :
            (/\ BarOf(p) # NULL
             /\ Val(BarOf(p)).rawDay = Some(CivilFromDays(DayNumber(Val(view.weekStartIso)) + k))
             /\ HandedJob(p).startingTimeGrain # NULL
             /\ normalizeDateOnlyIso(Val(HandedJob(p).startingTimeGrain).date, env.tz) # NULL) =>
                /\ Val(BarOf(p)).dayIndex = k
                /\ Val(BarOf(p)).left = (k * 660 + Val(BarOf(p)).visibleStart) * pixelsPerMinute

SameBarsRendered ==
    /\ Len(view'.rows) = Len(view.rows)
    /\ \A p \in Handed : (BarOf(p) # NULL) <=> (view'.rows[p[1]].bars[p[2]] # NULL)

\* C10 as stated: when the zoom grows for a fixed schedule, the track width and the width of
\* every rendered job bar grow strictly.
C10_ZoomStrictlyWidens ==
    [][(pixelsPerMinute' > pixelsPerMinute /\ schedule' = schedule) =>
          /\ view'.trackWidth > view.trackWidth
          /\ SameBarsRendered
          /\ \A p \in Handed :
                BarOf(p) # NULL => Val(view'.rows[p[1]].bars[p[2]]).width > Val(BarOf(p)).width]_vars

\* C10 (amended): when the zoom grows for a fixed schedule, the track width grows strictly
\* and no rendered bar gets narrower; a bar wider than the 10 pixel minimum grows strictly.
C10_ZoomWidens ==
    [][(pixelsPerMinute' > pixelsPerMinute /\ schedule' = schedule) =>
          /\ view'.trackWidth > view.trackWidth
          /\ SameBarsRendered
          /\ \A p \in Handed :
                BarOf(p) # NULL =>
                    /\ Val(view'.rows[p[1]].bars[p[2]]).width >= Val(BarOf(p)).width
                    /\ Val(BarOf(p)).width > 1000 =>
                          Val(view'.rows[p[1]].bars[p[2]]).width > Val(BarOf(p)).width]_vars

C10_Witness ==
    /\ pixelsPerMinute = 70
    /\ view.trackWidth = 7 * 660 * 70
    /\ \E p \in Handed : BarOf(p) # NULL /\ Val(BarOf(p)).width = 60 * 70
    /\ \E p \in Handed : BarOf(p) # NULL /\ Val(BarOf(p)).width = 1000

\* C11: every rendered bar lies inside the track: left >= 0 and left + width <= trackWidth,
\* where trackWidth = 7 * 660 * pixelsPerMinute.
C11_BarsInsideTrack ==
    view.message = FALSE =>
        /\ view.trackWidth = 7 * 660 * pixelsPerMinute
        /\ \A p \in Handed :
              BarOf(p) # NULL =>
                  /\ Val(BarOf(p)).left >= 0
                  /\ Val(BarOf(p)).left + Val(BarOf(p)).width <= 7 * 660 * pixelsPerMinute

\* a bar one minute before the end of the last day: the 10 pixel minimum would leave the track
C11_Witness ==
    \E p \in Handed :
        /\ BarOf(p) # NULL
        /\ Val(BarOf(p)).dayIndex = 6
        /\ Val(BarOf(p)).visibleStart = 659
        /\ Val(BarOf(p)).width = pixelsPerMinute
        /\ Val(BarOf(p)).width < 10 * 100
        /\ Val(BarOf(p)).left + Val(BarOf(p)).width = 7 * 660 * pixelsPerMinute

\* C12: the duration MachineRow lays a job out with is job.durationMinutes when present, else
\* durationInGrains * grainLengthMinutes, else min(480, 660) = 480; the job ends at start + duration.
C12_EffectiveDuration ==
    \A p \in Handed :
        LET sj == HandedJob(p)
            d  == IF BarOf(p) = NULL THEN 0 ELSE Val(BarOf(p)).durationMinutes
        IN  BarOf(p) # NULL =>
                /\ sj.job.durationMinutes # NULL => d = Val(sj.job.durationMinutes)
                /\ (sj.job.durationMinutes = NULL /\ sj.durationInGrains # NULL) =>
                        d = Val(sj.durationInGrains) * view.grainLengthMinutes
                /\ (sj.job.durationMinutes = NULL /\ sj.durationInGrains = NULL) => d = 480
                /\ (HasStart(sj) /\ StartOf(sj) + d <= 660) => Val(BarOf(p)).visibleEnd = StartOf(sj) + d

\* one row with a job that has job.durationMinutes and a job that has only 12 grains of 5 minutes
C12_Witness ==
    /\ view.grainLengthMinutes = 5
    /\ \E p \in Handed :
          /\ BarOf(p) # NULL
          /\ HandedJob(p).job.durationMinutes = NULL
          /\ HandedJob(p).durationInGrains = Some(12)
          /\ Val(BarOf(p)).durationMinutes = 60
          /\ Val(BarOf(p)).visibleEnd = Val(BarOf(p)).visibleStart + 60
    /\ \E p \in Handed :
          /\ BarOf(p) # NULL
          /\ HandedJob(p).job.durationMinutes = Some(60)
          /\ Val(BarOf(p)).durationMinutes = 60

\* C13 as stated: whenever durationInGrains is present the layout duration is
\* durationInGrains * grainLength; job.durationMinutes is used only when it is absent.
C13_GrainsTakePrecedence ==
    \A p \in Handed :
        BarOf(p) # NULL =>
            /\ HandedJob(p).durationInGrains # NULL =>
                  Val(BarOf(p)).durationMinutes =
                      Val(HandedJob(p).durationInGrains) * view.grainLengthMinutes
            /\ (HandedJob(p).durationInGrains = NULL /\ HandedJob(p).job.durationMinutes # NULL) =>
                  Val(BarOf(p)).durationMinutes = Val(HandedJob(p).job.durationMinutes)

\* C13 (amended): whenever job.durationMinutes is present it is the layout duration, also when
\* durationInGrains is present and disagrees; durationInGrains * grainLength is used only when
\* job.durationMinutes is absent.
C13_MinutesTakePrecedence ==
    \A p \in Handed :
        BarOf(p) # NULL =>
            /\ HandedJob(p).job.durationMinutes # NULL =>
                  Val(BarOf(p)).durationMinutes = Val(HandedJob(p).job.durationMinutes)
            /\ (HandedJob(p).durationInGrains # NULL /\ HandedJob(p).job.durationMinutes = NULL) =>
                  Val(BarOf(p)).durationMinutes =
                      Val(HandedJob(p).durationInGrains) * view.grainLengthMinutes

\* both fields present and in disagreement: 12 grains of 3 minutes against 30 minutes
C13_Witness ==
    \E p \in Handed :
        /\ BarOf(p) # NULL
        /\ HandedJob(p).job.durationMinutes = Some(30)
        /\ HandedJob(p).durationInGrains = Some(12)
        /\ view.grainLengthMinutes = 3
        /\ Val(BarOf(p)).durationMinutes = 30

\* no grain at all, or a grain with neither startingMinuteOfDay nor grainIndex
Unresolvable(sj) ==
    LET candidate == IF sj.startingTimeGrain # NULL THEN sj.startingTimeGrain ELSE sj.assignedTimeGrain
    IN  \/ candidate = NULL
        \/ Val(candidate).startingMinuteOfDay = NULL /\ Val(candidate).grainIndex = NULL

\* C14: a scheduled job whose grain cannot be resolved is skipped: no bar is rendered for it
\* in any row.
C14_UnresolvableGrainSkipped ==
    \A p \in Handed : Unresolvable(RawJob(HandedJob(p))) => BarOf(p) = NULL

\* the weekStartDate of the schedule is absent or is no calendar date
WeekStartInvalid ==
    LET norm == normalizeDateOnlyIso(schedule.weekStartDate, env.tz)
    IN  schedule.weekStartDate = NULL \/ norm = NULL \/ ~IsCalendarDate(Val(norm))

\* C15: when schedule.weekStartDate is absent or cannot be normalized to a calendar date, the
\* Timeline renders only the message "No valid week start date in schedule": no zoom controls,
\* no ruler, no machine rows, no job bars and no popover.
C15_InvalidWeekStartOnlyMessage ==
    WeekStartInvalid =>
        /\ view.message
        /\ view.zoomControls = FALSE
        /\ view.ruler = NULL
        /\ view.rows = << >>
        /\ view.popover = NULL

\* a schedule with a job and a machine whose weekStartDate is a string that is no date
C15_Witness ==
    /\ schedule.weekStartDate = Some(TextStr)
    /\ JobList(schedule) # << >>
    /\ view.message
    /\ view.rows = << >>

ZoomBoundsOrdered ==
    MIN_PIXELS_PER_MINUTE <= DEFAULT_PIXELS_PER_MINUTE /\ DEFAULT_PIXELS_PER_MINUTE <= MAX_PIXELS_PER_MINUTE

\* C16: after any sequence of zoomIn, zoomOut, resetZoom and slider changes, with any numeric
\* slider value, pixelsPerMinute lies in [MIN_PIXELS_PER_MINUTE, MAX_PIXELS_PER_MINUTE] (given
\* that the default does), and immediately after resetZoom it is DEFAULT_PIXELS_PER_MINUTE.
C16_ZoomStaysInBounds ==
    ZoomBoundsOrdered =>
        /\ pixelsPerMinute >= MIN_PIXELS_PER_MINUTE
        /\ pixelsPerMinute <= MAX_PIXELS_PER_MINUTE
        /\ pc.event = "resetZoom" => pixelsPerMinute = DEFAULT_PIXELS_PER_MINUTE

\* a reset handled at the upper bound, which zoomIn or an out-of-range slider value stopped at
C16_Witness ==
    /\ ZoomBoundsOrdered
    /\ pc.event = "resetZoom"
    /\ pc.pixelsPerMinute = MAX_PIXELS_PER_MINUTE
    /\ pixelsPerMinute = DEFAULT_PIXELS_PER_MINUTE

Closing ==
    \/ pc.event \in {"backdrop", "close"}
    \/ pc.event = "keydown" /\ pc.arg = Some("Escape") /\ pc.selected # NULL

\* C18: while a job is selected, a mouse-down on the backdrop, the Escape key and the popover's
\* close control each set the selection to null; Escape while nothing is selected leaves the
\* state unchanged.
C18_ClosingClearsSelection ==
    /\ Closing => (pc.selected # NULL /\ selected = NULL /\ view.popover = NULL)
    /\ (pc.event = "keydown" /\ pc.selected = NULL) =>
          /\ selected = NULL
          /\ pixelsPerMinute = pc.pixelsPerMinute
          /\ view.popover = NULL

\* Escape pressed while job 1 is selected
C18_Witness ==
    /\ pc.event = "keydown"
    /\ pc.arg = Some("Escape")
    /\ pc.selected # NULL
    /\ Val(pc.selected).job.scheduledJobUuid = 1
    /\ selected = NULL

\* x@y.z somewhere in the email, x, y and z being non-empty and free of white space
SomethingAtSomethingDotSomething(email) ==
    \E i \in 1..Len(email) : \E j \in i..Len(email) :
        LET part == SubSeq(email, i, j)
        IN  \E a \in 2..Len(part) : \E b \in (a + 2)..(Len(part) - 1) :
              /\ part[a] = "@"
              /\ part[b] = "."
              /\ \A q \in 1..Len(part) : part[q] # " "

\* C19: submitting the login form calls onSubmit only when the email matches
\* something@something.something and the password is not empty; otherwise it alerts
\* "Invalid email" (the email is checked first) or "Invalid password" and onSubmit is not called.
C19_LoginValidation ==
    (pc = "login") =>
        LET emailValid == SomethingAtSomethingDotSomething(login.email)
            passwordValid == login.password # << >>
        IN  /\ login.submitted # NULL =>
                  /\ emailValid /\ passwordValid
                  /\ login.submitted = Some(<<login.email, login.password>>)
                  /\ login.alert = NULL
            /\ login.alert # NULL =>
                  /\ login.submitted = NULL
                  /\ ~(emailValid /\ passwordValid)
                  /\ login.alert = IF ~emailValid THEN Some("Invalid email") ELSE Some("Invalid password")

\* both fields are invalid and the alert names the email
C19_Witness ==
    /\ pc = "login"
    /\ login.email = <<"a", "@", "a">>
    /\ login.password = << >>
    /\ login.alert = Some("Invalid email")

\* C20: normalizeDateOnlyIso returns, for every input (absent, empty, malformed, date-shaped but
\* no calendar date such as month 13), either null or a YYYY-MM-DD string that denotes a valid
\* calendar date.
C20_NormalizedIsCalendarDate ==
    (pc \in {"normalized", "snapped", "days", "done"} /\ result.norm # NULL) =>
        LET iso == Val(result.norm)
        IN  /\ iso.m \in 1..12
            /\ iso.d \in 1..DaysInMonth(iso.y, iso.m)

(***************************************************************************)
(* Row order                                                               *)
(***************************************************************************)
\* every machine the builder meets, in the order it meets them: the machine list, each job's
\* machine (or the placeholder), the placeholder added at the end
Appearances ==
    OrElse(schedule.machineList, << >>)
        \o [j \in 1..Len(JobList(schedule)) |->
               OrElse(JobList(schedule)[j].assignedMachine, Machine(UnassignedId, Some(UnassignedName)))]
        \o <<Machine(UnassignedId, Some(UnassignedName))>>

FirstSeen(m) ==
    CHOOSE c \in 1..Len(Appearances) :
        /\ KeyOf(Appearances[c]) = KeyOf(m)
        /\ \A b \in 1..(c - 1) : KeyOf(Appearances[b]) # KeyOf(m)

DisplayName(m) == OrElse(m.name, << >>)

\* C21: the rows are in non-decreasing order of display name (a missing name is the empty
\* string); rows with equal names are in the order their ids are first seen in the schedule,
\* and building the rows again from the same schedule gives the same order.
C21_RowOrderSortedAndStable ==
    /\ [](pc \in {"done", "again"} =>
            \A i, j \in 1..Len(result.machines) :
                i < j =>
                    /\ LocaleCompare(DisplayName(result.machines[i]), DisplayName(result.machines[j])) <= 0
                    /\ LocaleCompare(DisplayName(result.machines[i]), DisplayName(result.machines[j])) = 0 =>
                          FirstSeen(result.machines[i]) < FirstSeen(result.machines[j]))
    /\ [][pc' = "again" => result'.machines = result.machines]_vars

\* two machines named "Ad" stay in first-seen order behind nothing, the earlier "mu" goes last
C21_Witness ==
    /\ pc = "again"
    /\ schedule.machineList = Some(<<Machine(<<"M", "2">>, Some(<<"m", "u">>)),
                                      Machine(UnassignedName, Some(<<"A", "d">>))>>)
    /\ Len(result.machines) = 3
    /\ result.machines[1] = Machine(UnassignedName, Some(<<"A", "d">>))
    /\ result.machines[2] = Machine(<<" ", "m", "1", " ">>, Some(<<"A", "d">>))
    /\ result.machines[3] = Machine(<<"M", "2">>, Some(<<"m", "u">>))
C27_EveryRenderCompletes ==
    fiber # NULL => Val(fiber).error = FALSE
(***************************************************************************)
(* Properties of the layout: days and widths                               *)
(***************************************************************************)
\* the job reaches MachineRow without a date that normalizeDateOnlyIso accepts
DateUnusable(sj) ==
    \/ sj.startingTimeGrain = NULL
    \/ Val(sj.startingTimeGrain).date = NULL
    \/ normalizeDateOnlyIso(Val(sj.startingTimeGrain).date, env.tz) = NULL

\* C23: a scheduled job whose startingTimeGrain.date is absent or unparsable is not dropped:
\* it is handed to a row, laid out on day index 0, and rendered there whenever its time
\* interval intersects the business window.
C23_UnusableDateFallsToDayZero ==
    view.message = FALSE =>
        /\ \A j \in 1..Len(JobList(schedule)) :
              \E p \in Handed : HandedJob(p).scheduledJobUuid = JobList(schedule)[j].scheduledJobUuid
        /\ \A p \in Handed :
              DateUnusable(HandedJob(p)) =>
                  LET s  == IF HasStart(HandedJob(p)) THEN StartOf(HandedJob(p)) ELSE 0
                      d  == EffectiveDuration(HandedJob(p))
                      lo == IF s > 0 THEN s ELSE 0
                      hi == IF s + d < 660 THEN s + d ELSE 660
                  IN  /\ (BarOf(p) # NULL) <=> (hi > lo)
                      /\ BarOf(p) # NULL =>
                            /\ Val(BarOf(p)).dayIndex = 0
                            /\ Val(BarOf(p)).left = lo * pixelsPerMinute

\* a job dated "not a date" that starts at relative minute 450 is drawn from 450 on day 0
C23_Witness ==
    /\ pixelsPerMinute = 70
    /\ \E p \in Handed :
          /\ HandedJob(p).startingTimeGrain # NULL
          /\ Val(HandedJob(p).startingTimeGrain).date = Some(TextStr)
          /\ BarOf(p) # NULL
          /\ Val(BarOf(p)).dayIndex = 0
          /\ Val(BarOf(p)).visibleStart = 450
          /\ Val(BarOf(p)).left = 450 * 70
\* C25 as stated: every rendered bar is at least 10 pixels wide, at every zoom value and for
\* every visible start, the last minutes of the last day included.
C25_EveryBarAtLeastMinimum ==
    \A p \in Handed : BarOf(p) # NULL => Val(BarOf(p)).width >= 10 * 100

\* C25 (amended): a rendered bar is at least 10 pixels wide unless less than 10 pixels of the
\* track are left to the right of its left edge; it then takes exactly what is left.
C25_MinimumUnlessTrackEnds ==
    \A p \in Handed :
        BarOf(p) # NULL =>
            \/ Val(BarOf(p)).width >= 10 * 100
            \/ /\ Val(BarOf(p)).width = view.trackWidth - Val(BarOf(p)).left
               /\ Val(BarOf(p)).width > 0

\* at the lowest zoom a job in the last minute of the last day is 0.2 pixels wide
C25_Witness ==
    /\ pixelsPerMinute = MIN_PIXELS_PER_MINUTE
    /\ \E p \in Handed :
          /\ BarOf(p) # NULL
          /\ Val(BarOf(p)).dayIndex = 6
          /\ Val(BarOf(p)).visibleEnd - Val(BarOf(p)).visibleStart = 1
          /\ Val(BarOf(p)).width = MIN_PIXELS_PER_MINUTE
          /\ Val(BarOf(p)).width = view.trackWidth - Val(BarOf(p)).left

\* C26 as stated: every rendered bar lies within the pixel block of its own day.
C26_BarInsideDayBlock ==
    \A p \in Handed :
        BarOf(p) # NULL =>
            /\ Val(BarOf(p)).dayIndex * 660 * pixelsPerMinute <= Val(BarOf(p)).left
            /\ Val(BarOf(p)).left + Val(BarOf(p)).width
                  <= (Val(BarOf(p)).dayIndex + 1) * 660 * pixelsPerMinute

\* C26 (amended): a rendered bar starts inside the pixel block of its own day and the time it
\* shows ends inside that block; the bar itself reaches into the next day's block only when
\* the 10 pixel minimum widened it, and then it is exactly 10 pixels wide.
C26_BarInsideDayBlockUpToMinimum ==
    \A p \in Handed :
        BarOf(p) # NULL =>
            LET bar == Val(BarOf(p))
            IN  /\ bar.dayIndex * 660 * pixelsPerMinute <= bar.left
                /\ bar.left < (bar.dayIndex + 1) * 660 * pixelsPerMinute
                /\ bar.left + (bar.visibleEnd - bar.visibleStart) * pixelsPerMinute
                      <= (bar.dayIndex + 1) * 660 * pixelsPerMinute
                /\ \/ bar.left + bar.width <= (bar.dayIndex + 1) * 660 * pixelsPerMinute
                   \/ bar.width = 10 * 100

\* a job in the last minute of the third day: its 10 pixel bar ends in the fourth day's block
C26_Witness ==
    \E p \in Handed :
        /\ BarOf(p) # NULL
        /\ Val(BarOf(p)).dayIndex = 2
        /\ Val(BarOf(p)).visibleStart = 659
        /\ Val(BarOf(p)).visibleEnd = 660
        /\ Val(BarOf(p)).width = 10 * 100
        /\ Val(BarOf(p)).left + Val(BarOf(p)).width > 3 * 660 * pixelsPerMinute
(***************************************************************************)
(* Properties of the time normalizer                                       *)
(***************************************************************************)
\* the candidate grain has a number under startingMinuteOfDay or under grainIndex
Resolvable == result.candidate # NULL /\
    (Val(result.candidate).startingMinuteOfDay # NULL \/ Val(result.candidate).grainIndex # NULL)

\* startingMinuteOfDay when it is a number, else grainIndex * grainLength
ResolvedMinute ==
    IF Val(result.candidate).startingMinuteOfDay # NULL
    THEN Val(Val(result.candidate).startingMinuteOfDay)
    ELSE Val(Val(result.candidate).grainIndex) * result.grainLength

\* C24 as stated: normalizeGrain yields no grain when neither startingMinuteOfDay nor
\* grainIndex is a number; for the resolved minute m it returns m - 420 when 420 <= m <= 1080
\* and m otherwise, and the returned value lies in [-1440, 1440].
C24_ShiftedOrUnchanged ==
    pc = "done" =>
        /\ (result.grain = NULL) <=> ~Resolvable
        /\ Resolvable =>
              LET m == ResolvedMinute
                  r == Val(Val(result.grain).startingMinuteOfDay)
              IN  /\ r = IF m >= 420 /\ m <= 1080 THEN m - 420 ELSE m
                  /\ r >= -1440 /\ r <= 1440

\* C24 (amended): as above, but a resolved minute outside [420, 1080] is returned cut to
\* [-1440, 1440]: m itself only when -1440 <= m <= 1440, else the nearer bound.
C24_ShiftedOrClamped ==
    pc = "done" =>
        /\ (result.grain = NULL) <=> ~Resolvable
        /\ Resolvable =>
              LET m == ResolvedMinute
                  r == Val(Val(result.grain).startingMinuteOfDay)
              IN  /\ r = IF m >= 420 /\ m <= 1080 THEN m - 420
                          ELSE IF m > 1440 THEN 1440
                          ELSE IF m < -1440 THEN -1440
                          ELSE m
                  /\ r >= -1440 /\ r <= 1440

\* grain index 300 with 60 minute grains resolves to minute 18000 and comes back as 1440
C24_Witness ==
    /\ pc = "done"
    /\ result.grainLength = 60
    /\ result.candidate # NULL
    /\ Val(result.candidate).startingMinuteOfDay = NULL
    /\ Val(result.candidate).grainIndex = Some(300)
    /\ result.grain # NULL
    /\ Val(result.grain).startingMinuteOfDay = Some(1440)
(***************************************************************************)
(* Properties of apiFetch                                                  *)
(***************************************************************************)
\* a response has arrived and apiFetch has settled
Responded == pc = "done" /\ result.response # NULL

\* what apiFetch does with the response, as C30 states it
OutcomeFollowsStatus ==
    Responded =>
        IF Val(result.response).status \in {401, 403}
        THEN /\ browser.accessToken = NULL
             /\ browser.href = "/login"
             /\ result.thrown # NULL
             /\ result.returned = NULL
        ELSE /\ result.returned = result.response
             /\ result.thrown = NULL
             /\ browser.accessToken = result.token
             /\ browser.href = "/active"

\* C30 as stated: on 401 or 403 apiFetch removes accessToken, redirects to /login and fails;
\* on every other status it returns the response and leaves accessToken as it was; the
\* Authorization header is sent if and only if an accessToken is stored.
C30_HeaderIffTokenStored ==
    /\ OutcomeFollowsStatus
    /\ result.request # NULL =>
          (("Authorization" \in DOMAIN Val(result.request).headers) <=> (result.token # NULL))

\* C30 (amended): as above, but the Authorization header is sent if and only if the stored
\* accessToken is a non-empty string, and it is then "Bearer " followed by the token.
C30_HeaderIffTokenNonEmpty ==
    /\ OutcomeFollowsStatus
    /\ result.request # NULL =>
          /\ ("Authorization" \in DOMAIN Val(result.request).headers)
                <=> (result.token # NULL /\ Val(result.token) # "")
          /\ "Authorization" \in DOMAIN Val(result.request).headers =>
                Val(result.request).headers["Authorization"] = "Bearer " \o Val(result.token)

\* a request sent with the stored token is answered 403: the token is gone, the window is at
\* /login and the caller gets the error, not the response
C30_Witness ==
    /\ Responded
    /\ result.token = Some("jwt")
    /\ Val(result.request).headers["Authorization"] = "Bearer jwt"
    /\ Val(result.response).status = 403
    /\ browser = [accessToken |-> NULL, href |-> "/login"]
    /\ result.thrown = Some("Authentication failed")
    /\ result.returned = NULL
(***************************************************************************)
(* Properties of the Active page                                           *)
(***************************************************************************)
\* this step is a response to load i, whose effect had been cleaned up before
CanceledLoadSteps(i) ==
    /\ i <= Len(page'.loads)
    /\ page.loads[i].canceled
    /\ page'.loads[i].at # page.loads[i].at

\* C29: a response to a load whose effect has been cleaned up never changes schedule, error
\* or loading; and when the latest load has settled without having been cancelled, loading
\* is false and schedule and error are not both set.
C29_CanceledLoadsAreIgnored ==
    /\ [][\A i \in 1..Len(page.loads) :
              CanceledLoadSteps(i) =>
                  /\ page'.schedule = page.schedule
                  /\ page'.error = page.error
                  /\ page'.loading = page.loading]_vars
    /\ [](LET n == Len(page.loads)
          IN  (n > 0 /\ page.loads[n].at = "settled" /\ ~page.loads[n].canceled) =>
                  /\ page.loading = FALSE
                  /\ ~(page.schedule # NULL /\ page.error # NULL)
                  /\ page.loads[n].outcome = Some("schedule") <=> page.schedule # NULL
                  /\ page.loads[n].outcome = Some("error") <=> page.error # NULL)

\* the load of the first range failed after its effect had been cleaned up, the load of the
\* second range brought a schedule: the schedule is shown and no error
C29_Witness ==
    /\ page.mounted
    /\ Len(page.loads) = 2
    /\ page.loads[1].canceled
    /\ page.loads[1].outcome = Some("error")
    /\ ~page.loads[2].canceled
    /\ page.loads[2].outcome = Some("schedule")
    /\ page.schedule = Some([weekStartDate |-> page.weekStartISO])
    /\ page.error = NULL
    /\ page.loading = FALSE
(***************************************************************************)
(* Properties of the Jobs page                                             *)
(***************************************************************************)
\* the lists a load for this week can display: that week's jobs, all jobs (the fallback),
\* or nothing
ListsLoadedFor(weekId) ==
    IF parseISOWeekId(weekId) = NULL
    THEN {<< >>}
    ELSE {<< >>, MapJobs(ServerJobs(weekId)), MapJobs(AllServerJobs)}

\* C28: once no request of the Jobs page is in flight, the displayed jobs are those loaded
\* for the selected week, never those of a request issued for a week selected before.
C28_DisplayedJobsAreOfSelectedWeek ==
    page.calls = << >> => page.jobs \in ListsLoadedFor(page.selectedWeekStart)
====
